---- MODULE Spec2Model ----
(***************************************************************************)
(* Student-Performance-Tracker: the CSV-backed in-memory record store of   *)
(* app.py (the five module-level dictionaries, the three CSV files the     *)
(* handlers write, the session role flag) and the request handlers that    *)
(* mutate it.  One action per request handler; the CSV loader and the      *)
(* csv.DictReader / csv.DictWriter conversions are operators.              *)
(***************************************************************************)
EXTENDS Naturals, Sequences, FiniteSets, TLC

VARIABLES
    session,                 \* flask session of the one client: user_id, role, name
    student_login_data,      \* studentId -> {password, role}
    student_profile_data,    \* studentId -> profile record
    student_grades_data,     \* studentId -> list of grade records
    student_attendance_data, \* studentId -> list of attendance records
    course_data,             \* courseCode -> course record
    students_csv,            \* the file students.csv
    grades_csv,              \* the file grades.csv
    attendance_csv,          \* the file attendance.csv
    courses_csv,             \* the file courses.csv
    upload_folder,           \* the names of the files in the folder uploads/
    in_flight,               \* the requests being handled by the server's threads
    request,                 \* the request handled last: route, URL argument, form
    flashed,                 \* what the handler of that request flashed
    requests                 \* the number of requests handled so far

store == <<student_login_data, student_profile_data, student_grades_data,
           student_attendance_data, course_data>>
files == <<students_csv, grades_csv, attendance_csv, courses_csv>>
vars == <<session, student_login_data, student_profile_data, student_grades_data,
          student_attendance_data, course_data, students_csv, grades_csv,
          attendance_csv, courses_csv, upload_folder, in_flight, request, flashed, requests>>

-----------------------------------------------------------------------------
(* Python values held in a record field.  A field read from a CSV file is a *)
(* str, a field csv.DictReader could not fill is None, credits after        *)
(* update_course is an int, the overflow of a long row is a list.           *)

S(s) == [t |-> "str", v |-> s]
I(s) == [t |-> "int", v |-> s]
L(q) == [t |-> "list", v |-> q]
None == [t |-> "None", v |-> ""]

\* Python truthiness of a field value, as `if value:` and all(...) test it
Truthy(x) == x # None /\ x # S("") /\ x # I("0") /\ x # L(<<>>)

\* dict.get(k) on a record (a function from field names to values)
Get(rec, k) == IF k \in DOMAIN rec THEN rec[k] ELSE None

\* dict.get(k, dflt)
GetOr(rec, k, dflt) == IF k \in DOMAIN rec THEN rec[k] ELSE dflt

\* str.strip() on the texts the forms of this model submit
Stripped == (" s1" :> "s1") @@ ("  " :> "")
Strip(s) == IF s \in DOMAIN Stripped THEN Stripped[s] ELSE s

Range(q) == {q[i] : i \in 1..Len(q)}

-----------------------------------------------------------------------------
(* The module-level dictionaries.  A Python dict keeps insertion order and  *)
(* list(d.values()) follows it, so a dict is a sequence of <<key, value>>   *)
(* entries with distinct keys.                                              *)

EmptyDict == <<>>
Keys(d) == {d[i][1] : i \in 1..Len(d)}
Has(d, k) == k \in Keys(d)
IndexOf(d, k) == CHOOSE i \in 1..Len(d) : d[i][1] = k
At(d, k) == d[IndexOf(d, k)][2]
\* d[k] = v : in place for a key already there, at the end for a new one
Put(d, k, v) ==
    IF Has(d, k) THEN [d EXCEPT ![IndexOf(d, k)] = <<k, v>>] ELSE Append(d, <<k, v>>)
\* d.pop(k, None)
Pop(d, k) == SelectSeq(d, LAMBDA e : e[1] # k)
\* list(d.values())
Values(d) == [i \in 1..Len(d) |-> d[i][2]]
\* d1 == d2 in Python: the same keys with equal values, whatever the order
DictEq(d1, d2) ==
    /\ Keys(d1) = Keys(d2)
    /\ \A k \in Keys(d1) : At(d1, k) = At(d2, k)

-----------------------------------------------------------------------------
(* CSV files.  A file is absent, or holds a header row and data rows of     *)
(* text cells; an existing file of size 0 has neither.                      *)

NoFile == [exists |-> FALSE, hdr |-> <<>>, rows |-> <<>>]
EmptyFile == [exists |-> TRUE, hdr |-> <<>>, rows |-> <<>>]
\* os.path.getsize(path) > 0
NonEmpty(f) == f.exists /\ (f.hdr # <<>> \/ f.rows # <<>>)

\* the key csv.DictReader stores the overflow of a long row under (restkey=None)
RestKey == "<None>"

\* what csv.writer writes for a value: '' for None, str(value) otherwise
CsvText(x) == IF x = None THEN "" ELSE x.v

\* csv.DictWriter(fieldnames=hdr, extrasaction='ignore').writerow(rec):
\* one cell per fieldname, restval '' for a missing key, other keys dropped
RowText(hdr, rec) ==
    [i \in 1..Len(hdr) |-> IF hdr[i] \in DOMAIN rec THEN CsvText(rec[hdr[i]]) ELSE ""]

\* one row as csv.DictReader yields it: dict(zip(fieldnames, row)), the rest
\* of a long row under restkey, None (restval) for the cells a short row lacks
DictRow(hdr, row) ==
    [k \in Range(hdr) \cup (IF Len(row) > Len(hdr) THEN {RestKey} ELSE {}) |->
        IF k = RestKey /\ k \notin Range(hdr)
        THEN L(SubSeq(row, Len(hdr) + 1, Len(row)))
        ELSE LET i == CHOOSE j \in 1..Len(hdr) :
                          hdr[j] = k /\ \A m \in (j + 1)..Len(hdr) : hdr[m] # k
             IN  IF i <= Len(row) THEN S(row[i]) ELSE None]

\* the loop of load_data_from_csv over the rows from index i on
RECURSIVE LoadRows(_, _, _, _, _, _)
LoadRows(hdr, rows, i, data_dict, key_field, is_list) ==
    IF i > Len(rows) THEN data_dict
    ELSE LET row == DictRow(hdr, rows[i])
             key == row[key_field]
         IN  IF key = None
             THEN LoadRows(hdr, rows, i + 1, data_dict, key_field, is_list)
             ELSE LoadRows(hdr, rows, i + 1,
                      IF is_list
                      THEN Put(data_dict, key.v,
                               Append(IF Has(data_dict, key.v)
                                      THEN At(data_dict, key.v) ELSE <<>>, row))
                      ELSE Put(data_dict, key.v, row),
                      key_field, is_list)

\* Where reading a file raises: nowhere, in open(), while the header line is
\* read (the first block of bytes is decoded then), or in a later block, after
\* `rows` data rows have been read
Intact == [at |-> "nowhere", rows |-> 0]
Damages(f) ==
    {Intact, [at |-> "open", rows |-> 0], [at |-> "header", rows |-> 0]}
    \cup {[at |-> "row", rows |-> k] : k \in 0..(Len(f.rows) - 1)}

\* (variant: data_dict is cleared before the header is looked at)
load_data_from_csv_ClearFirst(f, data_dict, key_field, is_list, damage) ==
    IF ~f.exists THEN data_dict
    ELSE IF damage.at \in {"open", "header"} THEN data_dict
    ELSE IF f.hdr = <<>> \/ key_field \notin Range(f.hdr) THEN EmptyDict
    ELSE LoadRows(f.hdr,
                  IF damage.at = "row" THEN SubSeq(f.rows, 1, damage.rows) ELSE f.rows,
                  1, EmptyDict, key_field, is_list)

\* (variant: the rows are loaded into data_dict without clearing it)
load_data_from_csv_Merging(f, data_dict, key_field, is_list, damage) ==
    IF ~f.exists THEN data_dict
    ELSE IF damage.at \in {"open", "header"} THEN data_dict
    ELSE IF f.hdr = <<>> THEN data_dict
    ELSE IF key_field \notin Range(f.hdr) THEN data_dict
    ELSE LoadRows(f.hdr,
                  IF damage.at = "row" THEN SubSeq(f.rows, 1, damage.rows) ELSE f.rows,
                  1, data_dict, key_field, is_list)

\* load_data_from_csv(filepath, data_dict, key_field, is_list) on a file that
\* may not be readable to its end: the contents of data_dict afterwards.  The
\* except clause of the function catches what open() and the reader raise;
\* data_dict.clear() has run by then when the header had the key field.
load_data_from_csv_reading(f, data_dict, key_field, is_list, damage) ==
    IF ~f.exists THEN data_dict
    ELSE IF damage.at \in {"open", "header"} THEN data_dict
    ELSE IF f.hdr = <<>> THEN data_dict
    ELSE IF key_field \notin Range(f.hdr) THEN data_dict
    ELSE LoadRows(f.hdr,
                  IF damage.at = "row" THEN SubSeq(f.rows, 1, damage.rows) ELSE f.rows,
                  1, EmptyDict, key_field, is_list)

\* load_data_from_csv on a file that can be read to its end
load_data_from_csv(f, data_dict, key_field, is_list) ==
    load_data_from_csv_reading(f, data_dict, key_field, is_list, Intact)

-----------------------------------------------------------------------------
(* Program constants                                                        *)

STUDENT_HEADERS == <<"studentId", "password", "firstName", "lastName", "email",
                     "major", "program", "gpa", "enrollmentDate", "dob">>
ATTENDANCE_HEADERS == <<"studentId", "courseName", "date", "status", "instructor">>
COURSE_HEADERS == <<"courseCode", "courseName", "description", "instructor",
                    "semester", "credits", "facultyId">>

faculty_users ==
    <<<<"prof_davis", [password |-> S("securepass"), role |-> S("faculty"),
                       name |-> S("Prof. Davis")]>>>>

-----------------------------------------------------------------------------
(* Bounds of the model                                                      *)

\* rows a CSV file may hold before an append is no longer explored
MaxFileRows == 3

\* requests a behaviour handles
MaxRequests == 5

-----------------------------------------------------------------------------
(* Session and responses                                                    *)

EmptySession == [k \in {} |-> None]
NoForm == [k \in {} |-> ""]
NoFlash == [category |-> "", message |-> "", name |-> <<>>]
\* flash(message, category); the texts interpolated into a message are left
\* out, but for the student name delete_student puts into its messages
Flash(message, category) == [category |-> category, message |-> message, name |-> <<>>]
FlashName(message, category, name) ==
    [category |-> category, message |-> message, name |-> name]

check_student_auth == Get(session, "role") = S("student")
\* (variant: any logged-in session passes)
check_faculty_auth_AnyRole == Truthy(Get(session, "role"))
check_faculty_auth == Get(session, "role") = S("faculty")

\* the module-level dictionaries after the startup code of __main__ has read
\* the CSV files found on disk
StartupProfiles(f) == load_data_from_csv(f, EmptyDict, "studentId", FALSE)

\* the loop that fills student_login_data from the profiles.  At startup a
\* profile gets a login when profile.get('password') is truthy, after an upload
\* when it has the key 'password' at all.
RECURSIVE LoginsFrom(_, _, _, _)
LoginsFrom(profiles, i, logins, at_startup) ==
    IF i > Len(profiles) THEN logins
    ELSE LET profile == profiles[i][2]
             keep == IF at_startup THEN Truthy(Get(profile, "password"))
                     ELSE "password" \in DOMAIN profile
         IN  LoginsFrom(profiles, i + 1,
                 IF keep
                 THEN Put(logins, profiles[i][1],
                          [password |-> profile["password"], role |-> S("student")])
                 ELSE logins,
                 at_startup)

StartupLogins(profiles) == LoginsFrom(profiles, 1, EmptyDict, TRUE)

\* (variant: session.clear() is forgotten, a failed login keeps the session)
login_NoClear(form) ==
    /\ request' = [route |-> "login", arg |-> "", form |-> form]
    /\ IF /\ Has(faculty_users, form.username)
          /\ At(faculty_users, form.username).password = S(form.password)
       THEN /\ session' = [user_id |-> S(form.username), role |-> S("faculty"),
                           name |-> At(faculty_users, form.username).name]
            /\ flashed' = NoFlash
       ELSE IF /\ Has(student_login_data, form.username)
               /\ At(student_login_data, form.username).password = S(form.password)
       THEN /\ session' =
                 [user_id |-> S(form.username), role |-> S("student"),
                  name |-> GetOr(IF Has(student_profile_data, form.username)
                                 THEN At(student_profile_data, form.username)
                                 ELSE [k \in {} |-> None],
                                 "firstName", S("Student"))]
            /\ flashed' = NoFlash
       ELSE /\ UNCHANGED session
            /\ flashed' = Flash("Invalid username or password", "error")
    /\ UNCHANGED <<store, files, upload_folder>>

\* POST /login
login(form) ==
    /\ request' = [route |-> "login", arg |-> "", form |-> form]
    /\ IF /\ Has(faculty_users, form.username)
          /\ At(faculty_users, form.username).password = S(form.password)
       THEN /\ session' = [user_id |-> S(form.username), role |-> S("faculty"),
                           name |-> At(faculty_users, form.username).name]
            /\ flashed' = NoFlash
       ELSE IF /\ Has(student_login_data, form.username)
               /\ At(student_login_data, form.username).password = S(form.password)
       THEN /\ session' =
                 [user_id |-> S(form.username), role |-> S("student"),
                  name |-> GetOr(IF Has(student_profile_data, form.username)
                                 THEN At(student_profile_data, form.username)
                                 ELSE [k \in {} |-> None],
                                 "firstName", S("Student"))]
            /\ flashed' = NoFlash
       ELSE /\ session' = EmptySession
            /\ flashed' = Flash("Invalid username or password", "error")
    /\ UNCHANGED <<store, files, upload_folder>>

\* GET /logout
logout ==
    /\ request' = [route |-> "logout", arg |-> "", form |-> NoForm]
    /\ session' = EmptySession
    /\ flashed' = Flash("You have been logged out.", "success")
    /\ UNCHANGED <<store, files, upload_folder>>

-----------------------------------------------------------------------------
(* Writing students.csv                                                     *)

\* all(h in csv_headers for h in STUDENT_HEADERS)
HasAllHeaders(csv_headers, headers) == Range(headers) \subseteq Range(csv_headers)

\* open(path, 'a'): writer.writeheader() if write_h, then the rows
AppendRows(f, fieldnames, write_h, recs) ==
    [exists |-> TRUE,
     hdr |-> IF write_h THEN fieldnames ELSE f.hdr,
     rows |-> f.rows \o [i \in 1..Len(recs) |-> RowText(fieldnames, recs[i])]]

\* open(path, 'w'): writer.writeheader(); writer.writerows(recs)
RewriteFile(fieldnames, recs) ==
    [exists |-> TRUE,
     hdr |-> fieldnames,
     rows |-> [i \in 1..Len(recs) |-> RowText(fieldnames, recs[i])]]

\* what a failed write leaves on disk: the file as it was when open() raised,
\* the file as open() left it when a later write raised
IoOutcomes == {"ok", "open_fails", "write_fails"}
AfterFailedAppend(f, io) ==
    IF io = "open_fails" THEN f ELSE [f EXCEPT !.exists = TRUE]
AfterFailedRewrite(f, io) ==
    IF io = "open_fails" THEN f ELSE EmptyFile

-----------------------------------------------------------------------------
(* POST /create_student                                                     *)

\* (variant: only the id and the password are asked for)
CreateRequired_IdOnly == {"studentId", "password"}

CreateRequired ==
    {"studentId", "password", "firstName", "lastName", "email", "confirmPassword"}

\* record = {h: data.get(h,'') for h in STUDENT_HEADERS} and its three defaults
NewStudentRecord(data) ==
    [h \in Range(STUDENT_HEADERS) |->
        IF h = "major" THEN S(IF data.major # "" THEN data.major ELSE "Undeclared")
        ELSE IF h = "program" THEN S(IF data.program # "" THEN data.program ELSE "Undeclared")
        ELSE IF h = "gpa" THEN S(IF data.gpa # "" THEN data.gpa ELSE "0.0")
        ELSE S(data[h])]

\* (variant: the profile is stored under the id as typed, not stripped)
StoredOnCreate_Unstripped(sid, record, io) ==
    IF io = "ok" THEN Put(student_profile_data, record["studentId"].v, record)
    ELSE student_profile_data

\* (variant: the dictionary is assigned before the append is tried)
StoredOnCreate_MemoryFirst(sid, record, io) == Put(student_profile_data, sid, record)

\* steps 5 and 6 of create_student: the row is appended to students.csv first
\* and student_profile_data is assigned afterwards, so an append that raises
\* leaves the dictionary as it was
StoredOnCreate(sid, record, io) ==
    IF io = "ok" THEN Put(student_profile_data, sid, record) ELSE student_profile_data

create_student(data, io) ==
    LET sid == Strip(data.studentId)
        record == NewStudentRecord(data)
        exists == students_csv.exists
        existing_h == IF exists /\ NonEmpty(students_csv)
                         /\ HasAllHeaders(students_csv.hdr, STUDENT_HEADERS)
                      THEN students_csv.hdr ELSE STUDENT_HEADERS
        write_h == ~exists \/ ~NonEmpty(students_csv)
    IN
    /\ request' = [route |-> "create_student", arg |-> "", form |-> data]
    /\ UNCHANGED <<session, upload_folder, grades_csv, student_grades_data, student_attendance_data,
                   course_data, attendance_csv, courses_csv>>
    /\ IF ~check_faculty_auth
       THEN /\ flashed' = NoFlash
            /\ UNCHANGED <<student_profile_data, student_login_data, students_csv>>
       ELSE IF \E f \in CreateRequired : Strip(data[f]) = ""
       THEN /\ flashed' = Flash("Required fields missing or empty.", "error")
            /\ UNCHANGED <<student_profile_data, student_login_data, students_csv>>
       ELSE IF data.password # data.confirmPassword
       THEN /\ flashed' = Flash("Passwords mismatch.", "error")
            /\ UNCHANGED <<student_profile_data, student_login_data, students_csv>>
       ELSE IF sid = ""
       THEN /\ flashed' = Flash("Student ID cannot be empty.", "error")
            /\ UNCHANGED <<student_profile_data, student_login_data, students_csv>>
       ELSE IF Has(student_profile_data, sid)
       THEN /\ flashed' = Flash("ID '{sid}' already exists.", "error")
            /\ UNCHANGED <<student_profile_data, student_login_data, students_csv>>
       ELSE IF io # "ok"
       THEN \* the append raised: the except clause of the handler
            /\ flashed' = Flash("Error creating student: {e}", "error")
            /\ students_csv' = AfterFailedAppend(students_csv, io)
            /\ student_profile_data' = StoredOnCreate(sid, record, io)
            /\ UNCHANGED student_login_data
       ELSE /\ students_csv' = AppendRows(students_csv, existing_h, write_h, <<record>>)
            /\ student_profile_data' = StoredOnCreate(sid, record, io)
            /\ student_login_data' =
                   Put(student_login_data, sid,
                       [password |-> S(data.password), role |-> S("student")])
            /\ flashed' = Flash("Student '{firstName}' added!", "success")

-----------------------------------------------------------------------------
(* POST /update_student/<student_id>                                        *)

UpdateRequired == {"firstName", "lastName", "email", "enrollmentDate", "dob"}

\* updated_data as built from the form, before the password is settled
UpdatedStudent(student_id, form) ==
    [h \in Range(STUDENT_HEADERS) |->
        IF h = "studentId" THEN S(student_id)
        ELSE IF h \in {"dob", "enrollmentDate", "password"} THEN S(form[h])
        ELSE S(Strip(form[h]))]

\* the fieldnames a full rewrite of students.csv uses: the header found in the
\* file when it holds every canonical column, the canonical header otherwise
RewriteHeaders(f) ==
    IF f.exists /\ NonEmpty(f) /\ HasAllHeaders(f.hdr, STUDENT_HEADERS)
    THEN f.hdr ELSE STUDENT_HEADERS

\* (variant: the blank field is stored as the new password)
SettledPassword_Blank(entered, original_student) == entered

\* the password of updated_data: the one entered, the old one for a blank field
SettledPassword(entered, original_student) ==
    IF Truthy(entered) THEN entered ELSE Get(original_student, "password")

\* (variant: the profile is replaced and the login entry is forgotten)
UpdatedLogins_Forgotten(student_id, password) == student_login_data

\* student_login_data after step 3 of update_student
UpdatedLogins(student_id, password) ==
    IF Has(student_login_data, student_id)
    THEN Put(student_login_data, student_id,
             [At(student_login_data, student_id) EXCEPT !.password = password])
    ELSE Put(student_login_data, student_id,
             [password |-> password, role |-> S("student")])

update_student(student_id, form, io) ==
    LET typed == UpdatedStudent(student_id, form)
        original_student == At(student_profile_data, student_id)
        updated_data ==
            [typed EXCEPT !["password"] =
                SettledPassword(typed["password"], original_student)]
        profiles == Put(student_profile_data, student_id, updated_data)
    IN
    /\ request' = [route |-> "update_student", arg |-> student_id, form |-> form]
    /\ UNCHANGED <<session, upload_folder, grades_csv, student_grades_data, student_attendance_data,
                   course_data, attendance_csv, courses_csv>>
    /\ IF ~check_faculty_auth
       THEN /\ flashed' = NoFlash
            /\ UNCHANGED <<student_profile_data, student_login_data, students_csv>>
       ELSE IF ~Has(student_profile_data, student_id)
       THEN /\ flashed' = Flash("Student '{student_id}' not found for update.", "error")
            /\ UNCHANGED <<student_profile_data, student_login_data, students_csv>>
       ELSE IF \E f \in UpdateRequired : ~Truthy(typed[f])
       THEN /\ flashed' = Flash("Required fields cannot be empty.", "error")
            /\ UNCHANGED <<student_profile_data, student_login_data, students_csv>>
       ELSE IF Truthy(typed["password"]) /\ form.password # form.confirmPassword
       THEN /\ flashed' = Flash("New passwords do not match.", "error")
            /\ UNCHANGED <<student_profile_data, student_login_data, students_csv>>
       ELSE /\ student_profile_data' = profiles
            /\ student_login_data' = UpdatedLogins(student_id, updated_data["password"])
            /\ IF io = "ok"
               THEN /\ students_csv' =
                          RewriteFile(RewriteHeaders(students_csv), Values(profiles))
                    /\ flashed' = Flash("Student '{firstName}' updated successfully!",
                                        "success")
               ELSE /\ students_csv' = AfterFailedRewrite(students_csv, io)
                    /\ flashed' = Flash("Error rewriting students.csv: {e}", "error")

-----------------------------------------------------------------------------
(* update_student handled by the threads of the development server          *)
(* (app.run serves each request in a thread of its own).  A thread can be   *)
(* suspended between two statements of the handler: after updated_data is   *)
(* built and validated, after the assignment to student_profile_data, and   *)
(* after the assignment to student_login_data.                              *)

Threads == {1, 2}
Idle == [pc |-> "idle", student_id |-> "", form |-> NoForm, updated_data |-> <<>>]

\* steps 1 and 2: original_student is read, updated_data is built from the
\* form and validated, and its password is settled
update_student_begin(t, student_id, form) ==
    LET typed == UpdatedStudent(student_id, form)
        original_student == At(student_profile_data, student_id)
        updated_data ==
            [typed EXCEPT !["password"] =
                SettledPassword(typed["password"], original_student)]
        Rejected(message) ==
            /\ flashed' = message
            /\ request' = [route |-> "update_student", arg |-> student_id, form |-> form]
            /\ in_flight' = [in_flight EXCEPT ![t] =
                                [pc |-> "rejected", student_id |-> student_id,
                                 form |-> form, updated_data |-> <<>>]]
    IN
    /\ in_flight[t].pc = "idle"
    /\ requests < MaxRequests
    /\ requests' = requests + 1
    /\ UNCHANGED <<session, store, files, upload_folder>>
    /\ IF ~check_faculty_auth THEN Rejected(NoFlash)
       ELSE IF ~Has(student_profile_data, student_id)
       THEN Rejected(Flash("Student '{student_id}' not found for update.", "error"))
       ELSE IF \E f \in UpdateRequired : ~Truthy(typed[f])
       THEN Rejected(Flash("Required fields cannot be empty.", "error"))
       ELSE IF Truthy(typed["password"]) /\ form.password # form.confirmPassword
       THEN Rejected(Flash("New passwords do not match.", "error"))
       ELSE /\ in_flight' = [in_flight EXCEPT ![t] =
                                [pc |-> "assign_profile", student_id |-> student_id,
                                 form |-> form, updated_data |-> updated_data]]
            /\ UNCHANGED <<request, flashed>>

\* student_profile_data[student_id] = updated_data
update_student_assign_profile(t) ==
    /\ in_flight[t].pc = "assign_profile"
    /\ student_profile_data' =
           Put(student_profile_data, in_flight[t].student_id, in_flight[t].updated_data)
    /\ in_flight' = [in_flight EXCEPT ![t].pc = "assign_login"]
    /\ UNCHANGED <<session, student_login_data, student_grades_data,
                   student_attendance_data, course_data, files, upload_folder,
                   request, flashed, requests>>

\* student_login_data[student_id]['password'] = updated_data['password'], or
\* the new entry of the else branch
update_student_assign_login(t) ==
    /\ in_flight[t].pc = "assign_login"
    /\ student_login_data' =
           UpdatedLogins(in_flight[t].student_id, in_flight[t].updated_data["password"])
    /\ in_flight' = [in_flight EXCEPT ![t].pc = "rewrite"]
    /\ UNCHANGED <<session, student_profile_data, student_grades_data,
                   student_attendance_data, course_data, files, upload_folder,
                   request, flashed, requests>>

\* step 4: students.csv is rewritten from list(student_profile_data.values())
update_student_rewrite(t, io) ==
    /\ in_flight[t].pc = "rewrite"
    /\ IF io = "ok"
       THEN /\ students_csv' =
                  RewriteFile(RewriteHeaders(students_csv), Values(student_profile_data))
            /\ flashed' = Flash("Student '{firstName}' updated successfully!", "success")
       ELSE /\ students_csv' = AfterFailedRewrite(students_csv, io)
            /\ flashed' = Flash("Error rewriting students.csv: {e}", "error")
    /\ request' = [route |-> "update_student", arg |-> in_flight[t].student_id,
                   form |-> in_flight[t].form]
    /\ in_flight' = [in_flight EXCEPT ![t].pc = "done"]
    /\ UNCHANGED <<session, store, grades_csv, attendance_csv, courses_csv,
                   upload_folder, requests>>

-----------------------------------------------------------------------------
(* POST /delete_student/<student_id>                                        *)

\* the name delete_student puts into its messages
DeletedName(student_id) ==
    IF Has(student_profile_data, student_id)
    THEN <<GetOr(At(student_profile_data, student_id), "firstName", S("")),
           GetOr(At(student_profile_data, student_id), "lastName", S(""))>>
    ELSE <<S("Unknown")>>

\* (variant: the attendance records of the student are left behind)
DependentsAfterDelete_KeepAttendance(student_id) ==
    [logins |-> Pop(student_login_data, student_id),
     grades |-> Pop(student_grades_data, student_id),
     attendance |-> student_attendance_data]

\* (variant: the login entry of the student is left behind)
DependentsAfterDelete_KeepLogin(student_id) ==
    [logins |-> student_login_data,
     grades |-> Pop(student_grades_data, student_id),
     attendance |-> Pop(student_attendance_data, student_id)]

\* (variant: the grade records of every student go with the one deleted)
DependentsAfterDelete_DropAllGrades(student_id) ==
    [logins |-> Pop(student_login_data, student_id),
     grades |-> EmptyDict,
     attendance |-> Pop(student_attendance_data, student_id)]

\* the three dictionaries that depend on the profile, after the pops
DependentsAfterDelete(student_id) ==
    [logins |-> Pop(student_login_data, student_id),
     grades |-> Pop(student_grades_data, student_id),
     attendance |-> Pop(student_attendance_data, student_id)]

delete_student(student_id, io) ==
    LET profiles == Pop(student_profile_data, student_id)
        name == DeletedName(student_id)
        dependents == DependentsAfterDelete(student_id)
    IN
    /\ request' = [route |-> "delete_student", arg |-> student_id, form |-> NoForm]
    /\ UNCHANGED <<session, upload_folder, grades_csv, course_data, attendance_csv, courses_csv>>
    /\ IF ~check_faculty_auth
       THEN /\ flashed' = NoFlash
            /\ UNCHANGED <<student_profile_data, student_login_data,
                           student_grades_data, student_attendance_data, students_csv>>
       ELSE /\ student_profile_data' = profiles
            /\ student_login_data' = dependents.logins
            /\ student_grades_data' = dependents.grades
            /\ student_attendance_data' = dependents.attendance
            /\ IF ~students_csv.exists
               THEN /\ flashed' = FlashName("Student '{name}' removed from memory; students.csv not found.",
                                            "warning", name)
                    /\ UNCHANGED students_csv
               ELSE IF io = "ok"
               THEN /\ students_csv' =
                          RewriteFile(RewriteHeaders(students_csv), Values(profiles))
                    /\ flashed' = FlashName("Student '{name}' deleted.", "success", name)
               ELSE /\ students_csv' = AfterFailedRewrite(students_csv, io)
                    /\ flashed' = Flash("Error rewriting students.csv: {e}", "error")

-----------------------------------------------------------------------------
(* POST /upload-student-data                                                *)

\* str.endswith('.csv') on the file names this model uploads
EndsWithCsv(filename) ==
    filename \in {"students.csv", "attendance.csv", "grades.csv", "my file.csv"}

\* werkzeug's secure_filename() on the file names this model uploads: a space
\* becomes an underscore
SecureNames == "my file.csv" :> "my_file.csv"
secure_filename(filename) ==
    IF filename \in DOMAIN SecureNames THEN SecureNames[filename] ELSE filename

\* (variant: the except clause does not look for the file it may have left)
FolderAfterUpload_NoCleanup(folder, filepath, io) ==
    IF io = "ok" THEN (folder \cup {filepath}) \ {filepath}
    ELSE IF io = "open_fails" THEN folder ELSE folder \cup {filepath}

\* the folder uploads/ when an upload handler returns: file.save(filepath)
\* has created the file unless its open() raised; os.remove(filepath) ends the
\* try block, and the except clause removes the file when it exists
FolderAfterUpload(folder, filepath, io) ==
    LET saved == IF io = "open_fails" THEN folder ELSE folder \cup {filepath}
    IN  IF io = "ok" THEN saved \ {filepath}
        ELSE IF filepath \in saved THEN saved \ {filepath} ELSE saved

\* student_login_data after the loop that follows the load of an upload
UploadLogins(profiles) == LoginsFrom(profiles, 1, EmptyDict, FALSE)

upload_student_data(filename, content, damage, io) ==
    LET profiles == load_data_from_csv_reading(content, student_profile_data,
                                               "studentId", FALSE, damage)
    IN
    /\ request' = [route |-> "upload_student_data", arg |-> filename,
                   form |-> [content |-> content, damage |-> damage]]
    /\ UNCHANGED <<session, student_grades_data, student_attendance_data,
                   course_data, files>>
    /\ IF ~check_faculty_auth
       THEN /\ flashed' = NoFlash
            /\ UNCHANGED <<student_profile_data, student_login_data, upload_folder>>
       ELSE IF filename = ""
       THEN /\ flashed' = Flash("No selected file for student data", "error")
            /\ UNCHANGED <<student_profile_data, student_login_data, upload_folder>>
       ELSE IF ~EndsWithCsv(filename)
       THEN /\ flashed' = Flash("Invalid file type for student data. Please upload a .csv file.",
                                "error")
            /\ UNCHANGED <<student_profile_data, student_login_data, upload_folder>>
       ELSE IF io # "ok"
       THEN \* file.save(filepath) raised
            /\ flashed' = Flash("Error processing student data file: {e}", "error")
            /\ upload_folder' = FolderAfterUpload(upload_folder, secure_filename(filename), io)
            /\ UNCHANGED <<student_profile_data, student_login_data>>
       ELSE /\ student_profile_data' = profiles
            /\ student_login_data' = UploadLogins(profiles)
            /\ upload_folder' = FolderAfterUpload(upload_folder, secure_filename(filename), io)
            /\ flashed' = Flash("Student data uploaded successfully!", "success")

-----------------------------------------------------------------------------
(* POST /upload-grades-data and POST /upload-attendance-data                *)

\* the two handlers differ in the dictionary they load and in their messages
UploadListData(what, filename, content, damage, io, data_dict) ==
    IF ~check_faculty_auth
    THEN [data |-> data_dict, folder |-> upload_folder, flashed |-> NoFlash]
    ELSE IF filename = ""
    THEN [data |-> data_dict, folder |-> upload_folder,
          flashed |-> FlashName("No selected file for {what} data", "error", <<S(what)>>)]
    ELSE IF ~EndsWithCsv(filename)
    THEN [data |-> data_dict, folder |-> upload_folder,
          flashed |-> FlashName("Invalid file type for {what} data. Please upload a .csv file.",
                                "error", <<S(what)>>)]
    ELSE IF io # "ok"
    THEN [data |-> data_dict,
          folder |-> FolderAfterUpload(upload_folder, secure_filename(filename), io),
          flashed |-> FlashName("Error processing {what} data file: {e}", "error",
                                <<S(what)>>)]
    ELSE [data |-> load_data_from_csv_reading(content, data_dict, "studentId", TRUE, damage),
          folder |-> FolderAfterUpload(upload_folder, secure_filename(filename), io),
          flashed |-> FlashName("{What} data uploaded successfully!", "success",
                                <<S(what)>>)]

upload_grades_data(filename, content, damage, io) ==
    LET done == UploadListData("grades", filename, content,
                               damage, io, student_grades_data)
    IN
    /\ request' = [route |-> "upload_grades_data", arg |-> filename,
                   form |-> [content |-> content, damage |-> damage]]
    /\ student_grades_data' = done.data
    /\ upload_folder' = done.folder
    /\ flashed' = done.flashed
    /\ UNCHANGED <<session, student_login_data, student_profile_data,
                   student_attendance_data, course_data, files>>

upload_attendance_data(filename, content, damage, io) ==
    LET done == UploadListData("attendance", filename,
                               content, damage, io, student_attendance_data)
    IN
    /\ request' = [route |-> "upload_attendance_data", arg |-> filename,
                   form |-> [content |-> content, damage |-> damage]]
    /\ student_attendance_data' = done.data
    /\ upload_folder' = done.folder
    /\ flashed' = done.flashed
    /\ UNCHANGED <<session, student_login_data, student_profile_data,
                   student_grades_data, course_data, files>>

-----------------------------------------------------------------------------
(* POST /submit_attendance                                                  *)

\* the instructor of the first attendance record of the course that names one
AllAttendance ==
    LET RECURSIVE Flat(_)
        Flat(i) == IF i > Len(student_attendance_data) THEN <<>>
                   ELSE student_attendance_data[i][2] \o Flat(i + 1)
    IN  Flat(1)

InstructorOf(course_name) ==
    LET all == AllAttendance
        hits == {i \in 1..Len(all) : /\ Get(all[i], "courseName") = S(course_name)
                                     /\ Truthy(Get(all[i], "instructor"))}
    IN  IF hits = {} THEN S("N/A")
        ELSE all[CHOOSE i \in hits : \A j \in hits : i <= j]["instructor"]

\* (variant: no duplicate is ever found)
IsDuplicate_Never(lst, i, record) == "new"

\* any(r['courseName'] == record['courseName'] and r['date'] == record['date']
\*     for r in lst): "dup", "new", or "raise" when a record reached by the scan
\* lacks the key it is asked for (KeyError)
RECURSIVE IsDuplicate(_, _, _)
IsDuplicate(lst, i, record) ==
    IF i > Len(lst) THEN "new"
    ELSE IF "courseName" \notin DOMAIN lst[i] THEN "raise"
    ELSE IF lst[i]["courseName"] # record["courseName"] THEN IsDuplicate(lst, i + 1, record)
    ELSE IF "date" \notin DOMAIN lst[i] THEN "raise"
    ELSE IF lst[i]["date"] = record["date"] THEN "dup"
    ELSE IsDuplicate(lst, i + 1, record)

\* the loop that adds new_records to student_attendance_data: the dictionary
\* when the loop ends, and whether it ended by an exception
RECURSIVE AddAttendance(_, _, _)
AddAttendance(new_records, i, data) ==
    IF i > Len(new_records) THEN [data |-> data, raised |-> FALSE]
    ELSE LET record == new_records[i]
             student_id == record["studentId"].v
             with_list == IF Has(data, student_id) THEN data
                          ELSE Put(data, student_id, <<>>)
             found == IsDuplicate(At(with_list, student_id), 1, record)
         IN  IF found = "raise" THEN [data |-> with_list, raised |-> TRUE]
             ELSE AddAttendance(new_records, i + 1,
                      IF found = "new"
                      THEN Put(with_list, student_id,
                               Append(At(with_list, student_id), record))
                      ELSE with_list)

\* form: course, date and one attendance_<studentId> field per student;
\* order: the order in which the set submitted_student_ids is iterated
submit_attendance(form, order, io) ==
    LET instructor_name == InstructorOf(form.course)
        with_status == SelectSeq(order, LAMBDA id : form.attendance[id] # "")
        new_records ==
            [i \in 1..Len(with_status) |->
                [studentId |-> S(with_status[i]), courseName |-> S(form.course),
                 date |-> S(form.date), status |-> S(form.attendance[with_status[i]]),
                 instructor |-> instructor_name]]
        write_header == ~attendance_csv.exists \/ ~NonEmpty(attendance_csv)
        added == AddAttendance(new_records, 1, student_attendance_data)
    IN
    /\ request' = [route |-> "submit_attendance", arg |-> "", form |-> form]
    /\ UNCHANGED <<session, upload_folder, grades_csv, student_login_data, student_profile_data,
                   student_grades_data, course_data, students_csv, courses_csv>>
    /\ IF ~check_faculty_auth
       THEN /\ flashed' = NoFlash
            /\ UNCHANGED <<student_attendance_data, attendance_csv>>
       ELSE IF form.course = "" \/ form.date = ""
       THEN /\ flashed' = Flash("Missing course name or date.", "error")
            /\ UNCHANGED <<student_attendance_data, attendance_csv>>
       ELSE IF new_records = <<>>
       THEN /\ flashed' = Flash("No attendance data submitted.", "warning")
            /\ UNCHANGED <<student_attendance_data, attendance_csv>>
       ELSE IF io # "ok"
       THEN /\ flashed' = Flash("An error occurred while submitting attendance: {e}",
                                "error")
            /\ attendance_csv' = AfterFailedAppend(attendance_csv, io)
            /\ UNCHANGED student_attendance_data
       ELSE /\ attendance_csv' =
                   AppendRows(attendance_csv, ATTENDANCE_HEADERS, write_header, new_records)
            /\ student_attendance_data' = added.data
            /\ flashed' =
                   IF added.raised
                   THEN Flash("An error occurred while submitting attendance: {e}", "error")
                   ELSE Flash("Attendance for {course_name} on {attendance_date} submitted successfully!",
                              "success")

-----------------------------------------------------------------------------
(* POST /enroll_student                                                     *)

\* the first entry of course_data whose courseName is course_name decides
is_faculty_authorized_for_course(faculty_id, course_name) ==
    IF ~Truthy(faculty_id) \/ ~Truthy(course_name) THEN FALSE
    ELSE LET hits == {i \in 1..Len(course_data) :
                         Get(course_data[i][2], "courseName") = course_name}
         IN  IF hits = {} THEN TRUE
             ELSE LET details == course_data[CHOOSE i \in hits : \A j \in hits : i <= j][2]
                      assigned == Get(details, "facultyId")
                  IN  IF Truthy(assigned) THEN assigned = faculty_id ELSE TRUE

\* (variant: no record of the course is ever found)
HasRecordFor_Never(d, student_id, course_name) == FALSE

\* any(x.get('courseName') == course_name for x in d.get(student_id, []))
HasRecordFor(d, student_id, course_name) ==
    /\ Has(d, student_id)
    /\ \E i \in 1..Len(At(d, student_id)) :
           Get(At(d, student_id)[i], "courseName") = S(course_name)

\* form: course_name, student_id_to_add; today: date.today() as %Y-%m-%d
enroll_student(form, today, io) ==
    LET faculty_id == Get(session, "user_id")
        faculty_name == GetOr(session, "name", S("?"))
        course_name == form.course_name
        student_id == form.student_id_to_add
        new_record == [studentId |-> S(student_id), courseName |-> S(course_name),
                       date |-> S(today), status |-> S("Present"),
                       instructor |-> faculty_name]
        write_h == ~attendance_csv.exists \/ ~NonEmpty(attendance_csv)
    IN
    /\ request' = [route |-> "enroll_student", arg |-> "", form |-> form]
    /\ UNCHANGED <<session, upload_folder, grades_csv, student_login_data, student_profile_data,
                   student_grades_data, course_data, students_csv, courses_csv>>
    /\ IF ~check_faculty_auth
       THEN /\ flashed' = NoFlash
            /\ UNCHANGED <<student_attendance_data, attendance_csv>>
       ELSE IF course_name = "" \/ student_id = ""
       THEN /\ flashed' = Flash("Missing course name or student ID.", "error")
            /\ UNCHANGED <<student_attendance_data, attendance_csv>>
       ELSE IF ~is_faculty_authorized_for_course(faculty_id, S(course_name))
       THEN /\ flashed' = Flash("You are not authorized to add students to {course_name}.",
                                "error")
            /\ UNCHANGED <<student_attendance_data, attendance_csv>>
       ELSE IF ~Has(student_profile_data, student_id)
       THEN /\ flashed' = Flash("Student ID '{student_id}' does not exist.", "error")
            /\ UNCHANGED <<student_attendance_data, attendance_csv>>
       ELSE IF \/ HasRecordFor(student_grades_data, student_id, course_name)
               \/ HasRecordFor(student_attendance_data, student_id, course_name)
       THEN /\ flashed' = Flash("Student {student_id} already appears to be associated with {course_name}.",
                                "warning")
            /\ UNCHANGED <<student_attendance_data, attendance_csv>>
       ELSE IF io # "ok"
       THEN /\ flashed' = Flash("Error adding student to course: {e}", "error")
            /\ attendance_csv' = AfterFailedAppend(attendance_csv, io)
            /\ UNCHANGED student_attendance_data
       ELSE /\ attendance_csv' =
                   AppendRows(attendance_csv, ATTENDANCE_HEADERS, write_h, <<new_record>>)
            /\ student_attendance_data' =
                   Put(student_attendance_data, student_id,
                       Append(IF Has(student_attendance_data, student_id)
                              THEN At(student_attendance_data, student_id) ELSE <<>>,
                              new_record))
            /\ flashed' = Flash("Student {student_id} added to {course_name} roster.",
                                "success")

-----------------------------------------------------------------------------
(* POST /update_course/<course_code>                                        *)

CourseRequired == {"courseName", "instructor", "semester", "credits", "facultyId"}

\* int(text) on the credits the forms of this model submit: the decimal
\* rendering of the number, no entry where int() raises ValueError
IntOf == ("3" :> "3") @@ ("04" :> "4")

\* updated_data as built from the form, credits still a str
UpdatedCourse(course_code, form) ==
    [h \in Range(COURSE_HEADERS) |->
        IF h = "courseCode" THEN S(course_code)
        ELSE IF h = "description" THEN S(Strip(form.courseDescription))
        ELSE S(Strip(form[h]))]

\* (variant: the rollback the handler's comment considers)
CoursesAfterUpdate_Rollback(course_code, updated_data, io) ==
    IF io = "ok" THEN Put(course_data, course_code, updated_data) ELSE course_data

\* course_data after step 3 of update_course; step 4, the rewrite of
\* courses.csv, does not touch it again, whatever becomes of the write
CoursesAfterUpdate(course_code, updated_data, io) ==
    Put(course_data, course_code, updated_data)

update_course(course_code, form, io) ==
    LET typed == UpdatedCourse(course_code, form)
        updated_data == [typed EXCEPT !["credits"] = I(IntOf[typed["credits"].v])]
        courses == CoursesAfterUpdate(course_code, updated_data, io)
    IN
    /\ request' = [route |-> "update_course", arg |-> course_code, form |-> form]
    /\ UNCHANGED <<session, upload_folder, grades_csv, student_login_data, student_profile_data,
                   student_grades_data, student_attendance_data, students_csv,
                   attendance_csv>>
    /\ IF ~check_faculty_auth
       THEN /\ flashed' = NoFlash
            /\ UNCHANGED <<course_data, courses_csv>>
       ELSE IF ~Has(course_data, course_code)
       THEN /\ flashed' = Flash("Course '{course_code}' not found for update.", "error")
            /\ UNCHANGED <<course_data, courses_csv>>
       ELSE IF \E f \in CourseRequired : ~Truthy(typed[f])
       THEN /\ flashed' = Flash("Required fields cannot be empty.", "error")
            /\ UNCHANGED <<course_data, courses_csv>>
       ELSE IF typed["credits"].v \notin DOMAIN IntOf
       THEN /\ flashed' = Flash("Credits must be a number.", "error")
            /\ UNCHANGED <<course_data, courses_csv>>
       ELSE IF ~Has(faculty_users, typed["facultyId"].v)
       THEN /\ flashed' = Flash("Invalid Faculty ID '{facultyId}'.", "error")
            /\ UNCHANGED <<course_data, courses_csv>>
       ELSE /\ course_data' = courses
            /\ IF io = "ok"
               THEN /\ courses_csv' = RewriteFile(COURSE_HEADERS, Values(courses))
                    /\ flashed' = Flash("Course '{courseName}' updated successfully!",
                                        "success")
               ELSE /\ courses_csv' = AfterFailedRewrite(courses_csv, io)
                    /\ flashed' = Flash("Error rewriting courses.csv: {e}", "error")

-----------------------------------------------------------------------------
(* The views that report an average score or an attendance percentage.     *)
(* An average is given in hundredths (9000 is 90.0), a percentage as the    *)
(* integer the template is handed.                                          *)

\* float(text) on the scores the files of this model hold: no entry where
\* float() raises ValueError
FloatOf == ("85" :> 85) @@ ("95" :> 95) @@ ("70" :> 70)

\* round(n / d) as Python 3 rounds: to the nearest integer, a tie to the even one
RoundDiv(n, d) ==
    LET q == n \div d
        r == n % d
    IN  IF 2 * r < d THEN q
        ELSE IF 2 * r > d THEN q + 1
        ELSE IF q % 2 = 0 THEN q ELSE q + 1

\* round(total / count, 2) if count > 0 else 0
Average(total, count) == IF count > 0 THEN RoundDiv(total * 100, count) ELSE 0

\* (variant: a student without records counts as always present)
Percentage_FullWhenEmpty(present, total) ==
    IF total > 0 THEN RoundDiv(present * 100, total) ELSE 100

\* round((present / total) * 100) if total > 0 else 0
Percentage(present, total) == IF total > 0 THEN RoundDiv(present * 100, total) ELSE 0

RECURSIVE Sum(_, _)
Sum(q, i) == IF i > Len(q) THEN 0 ELSE q[i] + Sum(q, i + 1)

GradesOf(student_id) ==
    IF Has(student_grades_data, student_id) THEN At(student_grades_data, student_id)
    ELSE <<>>
AttendanceOf(student_id) ==
    IF Has(student_attendance_data, student_id)
    THEN At(student_attendance_data, student_id) ELSE <<>>

\* the loop `score = float(g.get('score'))` of student_dashboard, grades and
\* manage_students: the records it does not skip, as numbers
ParsedScores(records) ==
    LET score_str(g) == Get(g, "score")
        kept == SelectSeq(records,
                    LAMBDA g : score_str(g).t = "str" /\ score_str(g).v \in DOMAIN FloatOf)
    IN  [i \in 1..Len(kept) |-> FloatOf[score_str(kept[i]).v]]

\* GET /student_dashboard: overall_grade
student_dashboard(student_id) ==
    LET scores == ParsedScores(GradesOf(student_id))
    IN  [overall_grade |-> Average(Sum(scores, 1), Len(GradesOf(student_id)))]

\* GET /grades: overall_grade
grades(student_id) ==
    LET scores == ParsedScores(GradesOf(student_id))
    IN  [overall_grade |-> Average(Sum(scores, 1), Len(scores))]

\* GET /view_student/<student_id>: float(score_str or 0) takes an empty and an
\* absent score for 0, and count_g counts every score that is not None
view_student(student_id) ==
    LET score_str(g) == Get(g, "score")
        parses(g) == \/ score_str(g) = None
                     \/ score_str(g).t = "str"
                            /\ (score_str(g).v = "" \/ score_str(g).v \in DOMAIN FloatOf)
        kept == SelectSeq(GradesOf(student_id), parses)
        total_s == Sum([i \in 1..Len(kept) |->
                           IF Truthy(score_str(kept[i])) THEN FloatOf[score_str(kept[i]).v]
                           ELSE 0], 1)
        count_g == Len(SelectSeq(kept, LAMBDA g : score_str(g) # None))
        att_log == AttendanceOf(student_id)
        present == Len(SelectSeq(att_log,
                           LAMBDA a : Get(a, "status") \in {S("Present"), S("Late")}))
    IN  [overall_grade |-> Average(total_s, count_g),
         overall_attendance |-> Percentage(present, Len(att_log))]

\* GET /attendance: overall_perc; a record without courseName or status is
\* skipped by the loop but counted in total_classes
attendance(student_id) ==
    LET attendance_log == AttendanceOf(student_id)
        counted == SelectSeq(attendance_log,
                       LAMBDA record : Truthy(Get(record, "courseName"))
                                       /\ Truthy(Get(record, "status")))
        present_count == Len(SelectSeq(counted,
                                 LAMBDA record : Get(record, "status") = S("Present")))
    IN  [overall_perc |-> Percentage(present_count, Len(attendance_log))]

\* GET /manage_students: the listing the template is given
manage_students ==
    [i \in 1..Len(student_profile_data) |->
        LET student_id == student_profile_data[i][1]
            scores == ParsedScores(GradesOf(student_id))
            present == Len(SelectSeq(AttendanceOf(student_id),
                               LAMBDA a : Get(a, "status") \in {S("Present"), S("Late")}))
        IN  [id |-> student_id,
             name |-> <<GetOr(student_profile_data[i][2], "firstName", S("")),
                        GetOr(student_profile_data[i][2], "lastName", S(""))>>,
             grade |-> Average(Sum(scores, 1), Len(scores)),
             attendance |-> Percentage(present, Len(AttendanceOf(student_id)))]]

-----------------------------------------------------------------------------
(* The views that list courses                                              *)

\* the course names the grade and attendance records mention:
\* {r['courseName'] for every record r if r.get('courseName')}
inferred_course_names ==
    LET NamesIn(d) ==
            UNION {{Get(At(d, k)[i], "courseName") :
                       i \in {j \in 1..Len(At(d, k)) :
                                 Truthy(Get(At(d, k)[j], "courseName"))}} :
                   k \in Keys(d)}
    IN  NamesIn(student_grades_data) \cup NamesIn(student_attendance_data)

\* GET /manage_courses: course_list_display before it is sorted by name, as
\* the entries made from course_data, in its order, and the set of entries
\* made for the names that only records mention
manage_courses ==
    LET with_name == SelectSeq(course_data,
                         LAMBDA e : Truthy(Get(e[2], "courseName")))
        processed_course_names ==
            {Get(with_name[i][2], "courseName") : i \in 1..Len(with_name)}
    IN  [listed |-> [i \in 1..Len(with_name) |->
                        [code |-> S(with_name[i][1]),
                         name |-> Get(with_name[i][2], "courseName"),
                         facultyId |-> Get(with_name[i][2], "facultyId")]],
         inferred |-> {[code |-> None, name |-> name, facultyId |-> None] :
                          name \in inferred_course_names \ processed_course_names}]

\* GET /take_attendance: the names in the course dropdown (a sorted list of a set)
take_attendance == inferred_course_names

\* GET /reports: the names in the course dropdown (a sorted list of a set)
reports == inferred_course_names

-----------------------------------------------------------------------------
(* GET /api/get_roster/<course_name>                                        *)

\* course_name.replace('+', ' ') on the course names this model asks for
PlusReplaced == "C++" :> "C  "
safe_course_name(course_name) ==
    IF course_name \in DOMAIN PlusReplaced THEN PlusReplaced[course_name]
    ELSE course_name

\* sorted(list(student_ids_in_course)) on the student ids of this model
SortedIds == <<"s1", "s2", "s9">>

\* the profile test `if profile:` of the loop over the sorted ids
get_roster_api(course_name) ==
    LET student_ids_in_course ==
            {id \in Keys(student_grades_data) \cup Keys(student_attendance_data) :
                \/ HasRecordFor(student_grades_data, id, safe_course_name(course_name))
                \/ HasRecordFor(student_attendance_data, id, safe_course_name(course_name))}
        listed == SelectSeq(SortedIds,
                      LAMBDA id : /\ id \in student_ids_in_course
                                  /\ Has(student_profile_data, id))
    IN  IF ~check_faculty_auth THEN [error |-> "Unauthorized", roster |-> <<>>]
        ELSE [error |-> "",
              roster |-> [i \in 1..Len(listed) |->
                             [id |-> listed[i],
                              name |-> <<GetOr(At(student_profile_data, listed[i]),
                                               "firstName", S("N/A")),
                                         GetOr(At(student_profile_data, listed[i]),
                                               "lastName", S("N/A"))>>]]]

-----------------------------------------------------------------------------
(* The files found on disk at startup, the files uploaded, the forms posted *)

StudentRow(id, password, firstName) ==
    <<id, password, firstName, "Lee", "a@x.org", "CS", "BSc", "3.5",
      "2024-09-01", "2005-01-01">>

CsvFile(hdr, rows) == [exists |-> TRUE, hdr |-> hdr, rows |-> rows]

\* canonical header, one student
StudentsCanonical == CsvFile(STUDENT_HEADERS, <<StudentRow("s1", "p", "Ann")>>)
\* canonical header and one more column
StudentsExtraColumn ==
    CsvFile(STUDENT_HEADERS \o <<"phone">>, <<StudentRow("s2", "p", "Bob") \o <<"555">> >>)
\* fewer columns than canonical: no password column
StudentsNoPassword ==
    CsvFile(<<"studentId", "firstName", "lastName">>, <<<<"s1", "Ann", "Lee">>>>)
\* a row shorter than the header, and a row with an empty password
StudentsShortRow ==
    CsvFile(STUDENT_HEADERS, <<<<"s1">>, StudentRow("s2", "", "Bob")>>)
\* no studentId column
StudentsNoKey == CsvFile(<<"id", "password">>, <<<<"s1", "p">>>>)
\* the key column last: two rows for one student, and between them a row too
\* short to have a studentId
StudentsRepeated ==
    CsvFile(<<"firstName", "password", "studentId">>,
            <<<<"Ann", "p", "s1">>, <<"Bob">>, <<"Eve", "q", "s1">>>>)
\* two students, one with another password than StudentsCanonical gives it
StudentsTwo ==
    CsvFile(STUDENT_HEADERS, <<StudentRow("s1", "q", "Ann"), StudentRow("s2", "p", "Bob")>>)

StudentForm(studentId, password, confirmPassword, firstName) ==
    [studentId |-> studentId, password |-> password,
     confirmPassword |-> confirmPassword, firstName |-> firstName,
     lastName |-> "Lee", email |-> "a@x.org", major |-> "", program |-> "BSc",
     gpa |-> "", enrollmentDate |-> "2024-09-01", dob |-> "2005-01-01"]

CreateForms ==
    {StudentForm("s1", "p", "p", "Ann"), StudentForm(" s1", "p", "p", "Ann"),
     StudentForm("s2", "q", "q", "Bob"), StudentForm("  ", "p", "p", "Ann"),
     StudentForm("s1", "p", "q", "Ann"), StudentForm("s2", "p", "p", "")}

UpdateForms ==
    {StudentForm("", "", "", "Eve"), StudentForm("", "q", "q", "Eve"),
     StudentForm("", "q", "p", "Eve"), StudentForm("", "", "", "")}

LoginForms ==
    {[username |-> "prof_davis", password |-> "securepass"],
     [username |-> "prof_davis", password |-> "p"],
     [username |-> "s1", password |-> "p"]}

StudentIds == {"s1", "s2"}

AttendanceRow(id, course, date, status) == <<id, course, date, status, "Dr. Roe">>
\* an attendance.csv with one record
AttendanceOne ==
    CsvFile(ATTENDANCE_HEADERS, <<AttendanceRow("s1", "Math", "2025-01-09", "Absent")>>)
\* an attendance.csv written without the courseName column
AttendanceNoCourse ==
    CsvFile(<<"studentId", "date", "status">>, <<<<"s1", "2025-01-09", "Late">>>>)

GRADE_HEADERS == <<"studentId", "courseName", "assignmentName", "score", "dateGraded">>
\* a grades.csv: s2 has a grade in Physics, and a student with no profile has one
GradesOne ==
    CsvFile(GRADE_HEADERS, <<<<"s2", "Physics", "Quiz 1", "85", "2025-01-08">>,
                             <<"s9", "Math", "Quiz 1", "70", "2025-01-08">>>>)

\* a grades.csv for one student: two scores that are numbers, one that is no
\* number, an empty one, and a short row that has no score at all
GradesScores ==
    CsvFile(GRADE_HEADERS, <<<<"s1", "Math", "Quiz 1", "85", "2025-01-08">>,
                             <<"s1", "Math", "Quiz 2", "95", "2025-01-09">>,
                             <<"s1", "Math", "Quiz 3", "abc", "2025-01-09">>,
                             <<"s1", "Physics", "Lab 1", "", "2025-01-09">>,
                             <<"s1", "Physics", "Lab 2">>>>)
\* no studentId column
GradesNoKey == CsvFile(<<"id", "score">>, <<<<"s1", "85">>>>)
\* an attendance file for upload: two students, the three statuses
AttendanceTwo ==
    CsvFile(ATTENDANCE_HEADERS, <<AttendanceRow("s1", "Math", "2025-01-08", "Present"),
                                  AttendanceRow("s1", "Math", "2025-01-09", "Late"),
                                  AttendanceRow("s1", "Art", "2025-01-09", "Absent"),
                                  AttendanceRow("s2", "Math", "2025-01-09", "Absent")>>)
\* no studentId column
AttendanceNoKey == CsvFile(<<"id", "status">>, <<<<"s1", "Present">>>>)

CourseRow(code, name, credits, facultyId) ==
    <<code, name, "An introduction", "Dr. Roe", "Fall", credits, facultyId>>
\* a courses.csv: one course of prof_davis, one of another faculty id, one unassigned
CoursesThree ==
    CsvFile(COURSE_HEADERS, <<CourseRow("C1", "Math", "3", "prof_davis"),
                              CourseRow("C2", "Physics", "4", "prof_lee"),
                              CourseRow("C3", "Art", "2", "")>>)
\* a courses.csv with one more column than canonical
CoursesExtraColumn ==
    CsvFile(COURSE_HEADERS \o <<"room">>,
            <<CourseRow("C1", "Math", "3", "prof_davis") \o <<"B12">> >>)

Today == "2025-01-10"

AttendanceForm(course, date, statuses) ==
    [course |-> course, date |-> date, attendance |-> statuses]
AttendanceForms ==
    {AttendanceForm("Math", Today, "s1" :> "Present"),
     AttendanceForm("Math", Today, "s1" :> "Late"),
     AttendanceForm("Math", Today, ("s1" :> "Absent") @@ ("s2" :> "Present")),
     AttendanceForm("Math", "2025-01-09", ("s1" :> "Present") @@ ("s2" :> "")),
     AttendanceForm("Math", Today, "s2" :> ""),
     AttendanceForm("", Today, "s1" :> "Present")}

\* the orders in which a set of ids can be iterated
Orders(ids) ==
    {q \in UNION {[1..n -> ids] : n \in {Cardinality(ids)}} :
        \A i, j \in 1..Len(q) : i # j => q[i] # q[j]}

EnrollForms ==
    {[course_name |-> c, student_id_to_add |-> id] :
        c \in {"Math", "Physics"}, id \in {"s1", "s2"}}
    \cup {[course_name |-> "", student_id_to_add |-> "s1"],
          [course_name |-> "C++", student_id_to_add |-> "s1"]}

CourseForm(courseName, credits, facultyId) ==
    [courseName |-> courseName, courseDescription |-> "", instructor |-> "Dr. Poe",
     semester |-> "Spring", credits |-> credits, facultyId |-> facultyId]
CourseForms ==
    {CourseForm("Algebra", "3", "prof_davis"), CourseForm("Math", "04", "prof_davis"),
     CourseForm("Algebra", "three", "prof_davis"), CourseForm("Algebra", "3", "prof_lee"),
     CourseForm("", "3", "prof_davis"), CourseForm("Algebra", "3", "prof_x")}

CourseCodes == {"C1", "C2", "C9"}

-----------------------------------------------------------------------------
(* Startup: __main__ loads the CSV files found on disk                      *)

InitWith(studentsFiles, gradesFiles, attendanceFiles, coursesFiles) ==
    \E sf \in studentsFiles, gf \in gradesFiles, af \in attendanceFiles,
       cf \in coursesFiles :
        /\ students_csv = sf
        /\ grades_csv = gf
        /\ attendance_csv = af
        /\ courses_csv = cf
        /\ student_profile_data = StartupProfiles(sf)
        /\ student_login_data = StartupLogins(StartupProfiles(sf))
        /\ student_grades_data = load_data_from_csv(gf, EmptyDict, "studentId", TRUE)
        /\ student_attendance_data = load_data_from_csv(af, EmptyDict, "studentId", TRUE)
        /\ course_data = load_data_from_csv(cf, EmptyDict, "courseCode", FALSE)
        /\ session = EmptySession
        /\ request = [route |-> "", arg |-> "", form |-> NoForm]
        /\ flashed = NoFlash
        /\ upload_folder = {}
        /\ in_flight = [t \in Threads |-> Idle]
        /\ requests = 0

-----------------------------------------------------------------------------
(* The student records: profiles, logins and students.csv                   *)

InitStudents ==
    InitWith({NoFile, EmptyFile, StudentsCanonical, StudentsExtraColumn,
              StudentsNoPassword},
             {NoFile}, {NoFile}, {NoFile})

\* one more request handled from its first statement to its last, while the
\* model's budget of requests lasts
Counted == requests < MaxRequests /\ requests' = requests + 1 /\ UNCHANGED in_flight

NextStudents ==
    \/ \E form \in LoginForms : Counted /\ login(form)
    \/ Counted /\ logout
    \/ \E data \in CreateForms, io \in IoOutcomes :
           Counted /\ Len(students_csv.rows) < MaxFileRows /\ create_student(data, io)
    \/ \E sid \in StudentIds, form \in UpdateForms, io \in IoOutcomes :
           Counted /\ update_student(sid, form, io)
    \/ \E sid \in StudentIds, io \in IoOutcomes : Counted /\ delete_student(sid, io)
    \/ \E filename \in {"", "notes.txt", "students.csv"},
          content \in {StudentsTwo, StudentsNoPassword, StudentsShortRow,
                       StudentsNoKey, EmptyFile},
          io \in {"ok", "open_fails"} :
           Counted /\ upload_student_data(filename, content, Intact, io)

SpecStudents == InitStudents /\ [][NextStudents]_vars

-----------------------------------------------------------------------------
(* The attendance records: submit_attendance, enroll_student, delete_student *)

InitAttendance ==
    InitWith({StudentsTwo}, {GradesOne},
             {NoFile, EmptyFile, AttendanceOne, AttendanceNoCourse},
             {CoursesThree})

NextAttendance ==
    \/ \E form \in LoginForms : Counted /\ login(form)
    \/ \E form \in AttendanceForms, io \in IoOutcomes :
           \E order \in Orders(DOMAIN form.attendance) :
               /\ Counted
               /\ Len(attendance_csv.rows) < MaxFileRows
               /\ submit_attendance(form, order, io)
    \/ \E form \in EnrollForms, io \in IoOutcomes :
           /\ Counted
           /\ Len(attendance_csv.rows) < MaxFileRows
           /\ enroll_student(form, Today, io)
    \/ \E sid \in StudentIds \cup {"s9"}, io \in IoOutcomes :
           Counted /\ delete_student(sid, io)

SpecAttendance == InitAttendance /\ [][NextAttendance]_vars

-----------------------------------------------------------------------------
(* Attendance taken from scratch: no attendance.csv at startup, and every   *)
(* append to it succeeds                                                    *)

InitFreshAttendance == InitWith({StudentsTwo}, {GradesOne}, {NoFile}, {CoursesThree})

NextFreshAttendance ==
    \/ \E form \in LoginForms : Counted /\ login(form)
    \/ \E form \in AttendanceForms :
           \E order \in Orders(DOMAIN form.attendance) :
               /\ Counted
               /\ Len(attendance_csv.rows) < MaxFileRows
               /\ submit_attendance(form, order, "ok")
    \/ \E form \in EnrollForms :
           /\ Counted
           /\ Len(attendance_csv.rows) < MaxFileRows
           /\ enroll_student(form, Today, "ok")

SpecFreshAttendance == InitFreshAttendance /\ [][NextFreshAttendance]_vars

-----------------------------------------------------------------------------
(* The course records: update_course                                        *)

InitCourses ==
    InitWith({NoFile, StudentsCanonical}, {NoFile}, {NoFile},
             {NoFile, EmptyFile, CoursesThree, CoursesExtraColumn})

NextCourses ==
    \/ \E form \in LoginForms : Counted /\ login(form)
    \/ Counted /\ logout
    \/ \E code \in CourseCodes, form \in CourseForms, io \in IoOutcomes :
           Counted /\ update_course(code, form, io)

SpecCourses == InitCourses /\ [][NextCourses]_vars

-----------------------------------------------------------------------------
(* The whole application                                                    *)

Init ==
    InitWith({NoFile, StudentsCanonical}, {GradesOne}, {NoFile}, {CoursesThree})

\* the whole application is explored with fewer forms per handler than each
\* part of it is on its own
CoreCreateForms ==
    {StudentForm("s1", "p", "p", "Ann"), StudentForm(" s1", "p", "p", "Ann"),
     StudentForm("s2", "p", "q", "Bob"), StudentForm("s2", "p", "p", "")}
CoreUpdateForms ==
    {StudentForm("", "", "", "Eve"), StudentForm("", "q", "q", ""),
     StudentForm("", "q", "p", "Eve")}
CoreAttendanceForms ==
    {AttendanceForm("Math", Today, "s1" :> "Late"),
     AttendanceForm("Math", Today, ("s1" :> "Absent") @@ ("s9" :> "Present"))}
CoreEnrollForms ==
    {[course_name |-> "Math", student_id_to_add |-> "s1"],
     [course_name |-> "Physics", student_id_to_add |-> "s1"],
     [course_name |-> "Math", student_id_to_add |-> "s2"]}
CoreCourseForms ==
    {CourseForm("Algebra", "3", "prof_davis"), CourseForm("Algebra", "three", "prof_davis"),
     CourseForm("", "3", "prof_davis"), CourseForm("Algebra", "3", "prof_x")}
CoreIo == {"ok", "open_fails"}

Next ==
    \/ \E form \in LoginForms : Counted /\ login(form)
    \/ Counted /\ logout
    \/ \E data \in CoreCreateForms, io \in CoreIo :
           Counted /\ Len(students_csv.rows) < MaxFileRows /\ create_student(data, io)
    \/ \E sid \in StudentIds, form \in CoreUpdateForms, io \in IoOutcomes :
           Counted /\ update_student(sid, form, io)
    \/ \E sid \in StudentIds \cup {"s9"}, io \in CoreIo :
           Counted /\ delete_student(sid, io)
    \/ \E filename \in {"notes.txt", "students.csv"}, content \in {StudentsTwo} :
           Counted /\ upload_student_data(filename, content, Intact, "ok")
    \/ \E filename \in {"grades.csv"}, content \in {GradesScores} :
           Counted /\ upload_grades_data(filename, content, Intact, "ok")
    \/ \E filename \in {"attendance.csv"}, content \in {AttendanceTwo} :
           Counted /\ upload_attendance_data(filename, content, Intact, "ok")
    \/ \E form \in CoreAttendanceForms, io \in CoreIo :
           \E order \in Orders(DOMAIN form.attendance) :
               /\ Counted
               /\ Len(attendance_csv.rows) < MaxFileRows
               /\ submit_attendance(form, order, io)
    \/ \E form \in CoreEnrollForms, io \in CoreIo :
           /\ Counted
           /\ Len(attendance_csv.rows) < MaxFileRows
           /\ enroll_student(form, Today, io)
    \/ \E code \in {"C1", "C9"}, form \in CoreCourseForms, io \in IoOutcomes :
           Counted /\ update_course(code, form, io)

Spec == Init /\ [][Next]_vars

-----------------------------------------------------------------------------
(* The uploads: files that lack the key column, are empty or cannot be read *)
(* to their end                                                             *)

InitUploads ==
    InitWith({NoFile, StudentsCanonical}, {GradesOne}, {AttendanceOne}, {NoFile})

\* what an upload request carries: a file name, the file, where reading it
\* raises, and whether file.save() raises
UploadsOf(name, contents) ==
    {[filename |-> "", content |-> EmptyFile, damage |-> Intact, io |-> "ok"],
     [filename |-> "notes.txt", content |-> EmptyFile, damage |-> Intact, io |-> "ok"],
     [filename |-> "my file.csv", content |-> EmptyFile, damage |-> Intact, io |-> "ok"],
     [filename |-> name, content |-> EmptyFile, damage |-> Intact, io |-> "open_fails"],
     [filename |-> name, content |-> EmptyFile, damage |-> Intact, io |-> "write_fails"]}
    \cup UNION {{[filename |-> name, content |-> c, damage |-> d, io |-> "ok"] :
                    d \in {x \in Damages(c) : x.rows < 2}} : c \in contents}

NextUploads ==
    \/ \E form \in LoginForms : Counted /\ login(form)
    \/ \E u \in UploadsOf("students.csv",
                           {StudentsTwo, StudentsNoKey, StudentsRepeated, EmptyFile}) :
           Counted /\ upload_student_data(u.filename, u.content, u.damage, u.io)
    \/ \E u \in UploadsOf("grades.csv", {GradesScores, GradesNoKey, EmptyFile}) :
           Counted /\ upload_grades_data(u.filename, u.content, u.damage, u.io)
    \/ \E u \in UploadsOf("attendance.csv", {AttendanceTwo, AttendanceNoKey, EmptyFile}) :
           Counted /\ upload_attendance_data(u.filename, u.content, u.damage, u.io)

SpecUploads == InitUploads /\ [][NextUploads]_vars

-----------------------------------------------------------------------------
(* Two update_student requests in flight at once                            *)

InitConcurrent == InitWith({StudentsCanonical, StudentsTwo}, {NoFile}, {NoFile}, {NoFile})

ConcurrentForms ==
    {StudentForm("", "", "", "Eve"), StudentForm("", "q", "q", "Eve"),
     StudentForm("", "r", "r", "Zoe"), StudentForm("", "q", "p", "Eve")}

NextConcurrent ==
    \/ \E form \in LoginForms : Counted /\ login(form)
    \/ \E t \in Threads, sid \in StudentIds, form \in ConcurrentForms :
           update_student_begin(t, sid, form)
    \/ \E t \in Threads : update_student_assign_profile(t)
    \/ \E t \in Threads : update_student_assign_login(t)
    \/ \E t \in Threads, io \in CoreIo : update_student_rewrite(t, io)

SpecConcurrent == InitConcurrent /\ [][NextConcurrent]_vars

-----------------------------------------------------------------------------
(* The server stopped and started again: __main__ loads the dictionaries,   *)
(* empty in the new process, from the files the old one left.  The session  *)
(* is a cookie signed with the same secret key and is still accepted.       *)

restart ==
    /\ request' = [route |-> "restart", arg |-> "", form |-> NoForm]
    /\ flashed' = NoFlash
    /\ student_profile_data' = StartupProfiles(students_csv)
    /\ student_login_data' = StartupLogins(StartupProfiles(students_csv))
    /\ student_grades_data' = load_data_from_csv(grades_csv, EmptyDict, "studentId", TRUE)
    /\ student_attendance_data' =
           load_data_from_csv(attendance_csv, EmptyDict, "studentId", TRUE)
    /\ course_data' = load_data_from_csv(courses_csv, EmptyDict, "courseCode", FALSE)
    /\ UNCHANGED <<session, files, upload_folder>>

InitRestart == InitWith({StudentsTwo}, {NoFile, GradesOne}, {NoFile, AttendanceOne}, {NoFile})

NextRestart ==
    \/ \E form \in LoginForms : Counted /\ login(form)
    \/ \E sid \in StudentIds, io \in IoOutcomes : Counted /\ delete_student(sid, io)
    \/ \E form \in CoreEnrollForms :
           /\ Counted
           /\ Len(attendance_csv.rows) < MaxFileRows
           /\ enroll_student(form, Today, "ok")
    \/ Counted /\ restart

SpecRestart == InitRestart /\ [][NextRestart]_vars

-----------------------------------------------------------------------------
(* Properties                                                               *)

ListedIds == {manage_students[i].id : i \in 1..Len(manage_students)}

\* C1: every entry of student_login_data has a profile under the same
\* studentId, and its password is the password field of that profile.
C1_LoginPasswordIsProfilePassword ==
    \A k \in Keys(student_login_data) :
        /\ Has(student_profile_data, k)
        /\ At(student_login_data, k).password = Get(At(student_profile_data, k), "password")

\* an accepted update_student has just given an uploaded or loaded student a
\* new password, and the login entry follows it
C1_Witness ==
    /\ request.route = "update_student"
    /\ flashed.category = "success"
    /\ request.form.password = "q"
    /\ Has(student_login_data, request.arg)
    /\ At(student_login_data, request.arg).password = S("q")
    /\ Cardinality(Keys(student_login_data)) = 2

\* C2: once delete_student(S) has run for a faculty session, S is a key of
\* none of the four student dictionaries, whether students.csv existed or not
\* and whether its rewrite succeeded or not.
C2_DeletedFromEveryMapping ==
    (request.route = "delete_student" /\ check_faculty_auth) =>
        /\ ~Has(student_profile_data, request.arg)
        /\ ~Has(student_login_data, request.arg)
        /\ ~Has(student_grades_data, request.arg)
        /\ ~Has(student_attendance_data, request.arg)

\* a student with a profile was deleted while students.csv did not exist
C2_Witness ==
    /\ request.route = "delete_student"
    /\ flashed.category = "warning"
    /\ flashed.name # <<S("Unknown")>>
    /\ ~students_csv.exists

\* all required fields non-empty and the two passwords equal
ValidCreate(data) ==
    /\ \A f \in CreateRequired : Strip(data[f]) # ""
    /\ data.password = data.confirmPassword

C4_BlankPasswordKeepsPassword ==
    [][\A sid \in StudentIds, form \in UpdateForms \cup CoreUpdateForms, io \in IoOutcomes :
          (/\ check_faculty_auth
           /\ Has(student_profile_data, sid)
           /\ form.password = ""
           /\ update_student(sid, form, io))
          => /\ Get(At(student_profile_data', sid), "password")
                    = Get(At(student_profile_data, sid), "password")
             /\ Has(student_login_data', sid) =>
                    At(student_login_data', sid).password
                        = Get(At(student_profile_data, sid), "password")
             /\ flashed'.message # "Required fields cannot be empty." =>
                    Has(student_login_data', sid)]_vars

\* an accepted update with a blank password field changed the first name of a
\* student whose password is still the one loaded at startup
C4_Witness ==
    /\ request.route = "update_student"
    /\ flashed.category = "success"
    /\ request.form.password = ""
    /\ Has(student_profile_data, request.arg)
    /\ At(student_profile_data, request.arg)["firstName"] = S("Eve")
    /\ At(student_profile_data, request.arg)["password"] = S("p")
    /\ At(student_login_data, request.arg).password = S("p")

\* the records of a student for one course and date
RecordsFor(data, id, course, date) ==
    IF ~Has(data, id) THEN {}
    ELSE {i \in 1..Len(At(data, id)) :
             /\ Get(At(data, id)[i], "courseName") = S(course)
             /\ Get(At(data, id)[i], "date") = S(date)}

\* C5: a submit_attendance adds one record for a (studentId, courseName, date)
\* that has none and leaves the student's list alone when it has one, so that
\* student_attendance_data never holds two records for one triple.
C5_OneRecordPerTriple ==
    /\ [](\A id \in Keys(student_attendance_data) :
            \A i, j \in 1..Len(At(student_attendance_data, id)) :
                LET a == At(student_attendance_data, id)[i]
                    b == At(student_attendance_data, id)[j]
                IN  (/\ "courseName" \in DOMAIN a
                     /\ Get(a, "courseName") = Get(b, "courseName")
                     /\ Get(a, "date") = Get(b, "date")) => i = j)
    /\ [][(request'.route = "submit_attendance" /\ flashed'.category = "success") =>
            \A id \in DOMAIN request'.form.attendance :
                request'.form.attendance[id] # "" =>
                    LET before == RecordsFor(student_attendance_data, id,
                                             request'.form.course, request'.form.date)
                        after == RecordsFor(student_attendance_data', id,
                                            request'.form.course, request'.form.date)
                    IN  IF before = {}
                        THEN /\ Cardinality(after) = 1
                             /\ At(student_attendance_data', id)[CHOOSE i \in after : TRUE]["status"]
                                    = S(request'.form.attendance[id])
                        ELSE At(student_attendance_data', id)
                                 = At(student_attendance_data, id)]_vars

\* a second submission for the same student, course and date was accepted
\* with another status, and the record of the first one is the one stored
C5_Witness ==
    /\ request.route = "submit_attendance"
    /\ flashed.category = "success"
    /\ request.form.attendance = ("s1" :> "Late")
    /\ Has(student_attendance_data, "s1")
    /\ \E i \in RecordsFor(student_attendance_data, "s1", "Math", Today) :
           At(student_attendance_data, "s1")[i]["status"] = S("Present")
    /\ Cardinality(RecordsFor(student_attendance_data, "s1", "Math", Today)) = 1

\* what load_data_from_csv makes of the two files that are rewritten in full
StudentsOnDisk == load_data_from_csv(students_csv, EmptyDict, "studentId", FALSE)
CoursesOnDisk == load_data_from_csv(courses_csv, EmptyDict, "courseCode", FALSE)

\* C6: after update_student, delete_student or update_course has rewritten
\* its file, loading the file gives the dictionary that was written, key by
\* key and field by field.
C6_RewriteRoundTrip ==
    /\ (request.route \in {"update_student", "delete_student"} /\ flashed.category = "success")
           => DictEq(StudentsOnDisk, student_profile_data)
    /\ (request.route = "update_course" /\ flashed.category = "success")
           => DictEq(CoursesOnDisk, course_data)

\* the same keys, and under each key the same text in every canonical column
EquivalentProfiles(d1, d2) ==
    /\ Keys(d1) = Keys(d2)
    /\ \A k \in Keys(d1) : \A h \in Range(STUDENT_HEADERS) :
           CsvText(Get(At(d1, k), h)) = CsvText(Get(At(d2, k), h))

\* C7: after every create_student, update_student and delete_student that
\* reports success, loading students.csv gives a dictionary equivalent to
\* student_profile_data.
C7_StudentsFileMirrorsProfiles ==
    (/\ request.route \in {"create_student", "update_student", "delete_student"}
     /\ flashed.category = "success")
    => EquivalentProfiles(StudentsOnDisk, student_profile_data)

\* the three handlers that append to a file, at a step where the append raised
FailedAppends(P(_, _, _, _)) ==
    /\ \A data \in CreateForms, io \in IoOutcomes \ {"ok"} :
           (/\ create_student(data, io)
            /\ flashed'.message = "Error creating student: {e}")
           => P("students", Strip(data.studentId), "", "")
    /\ \A form \in AttendanceForms \cup CoreAttendanceForms, io \in IoOutcomes \ {"ok"} :
           \A order \in Orders(DOMAIN form.attendance) :
               (/\ submit_attendance(form, order, io)
                /\ flashed'.message = "An error occurred while submitting attendance: {e}")
               => \A id \in {x \in DOMAIN form.attendance : form.attendance[x] # ""} :
                      P("attendance", id, form.course, form.date)
    /\ \A form \in EnrollForms \cup CoreEnrollForms, io \in IoOutcomes \ {"ok"} :
           (/\ enroll_student(form, Today, io)
            /\ flashed'.message = "Error adding student to course: {e}")
           => P("attendance", form.student_id_to_add, form.course_name, Today)

C9_FailedRewriteKeepsUpdate ==
    /\ (request.route = "update_student"
            /\ flashed.message = "Error rewriting students.csv: {e}") =>
           /\ flashed.category = "error"
           /\ Has(student_profile_data, request.arg)
           /\ \A f \in {"firstName", "lastName", "email"} :
                  At(student_profile_data, request.arg)[f] = S(Strip(request.form[f]))
           /\ \A f \in {"enrollmentDate", "dob"} :
                  At(student_profile_data, request.arg)[f] = S(request.form[f])
           /\ request.form.password # "" =>
                  At(student_profile_data, request.arg)["password"] = S(request.form.password)
           /\ Has(student_login_data, request.arg)
           /\ At(student_login_data, request.arg).password
                  = At(student_profile_data, request.arg)["password"]
    /\ (request.route = "update_course"
            /\ flashed.message = "Error rewriting courses.csv: {e}") =>
           /\ flashed.category = "error"
           /\ Has(course_data, request.arg)
           /\ \A f \in {"courseName", "instructor", "semester", "facultyId"} :
                  At(course_data, request.arg)[f] = S(Strip(request.form[f]))
           /\ At(course_data, request.arg)["credits"]
                  = I(IntOf[Strip(request.form.credits)])

\* the rewrite of courses.csv has just failed: the course has its new name in
\* course_data and its old one in the file
C9_Witness ==
    /\ request.route = "update_course"
    /\ flashed.message = "Error rewriting courses.csv: {e}"
    /\ At(course_data, "C1")["courseName"] = S("Algebra")
    /\ courses_csv = CoursesThree
    /\ At(CoursesOnDisk, "C1")["courseName"] = S("Math")

\* C10: update_student and delete_student of an id without a profile,
\* update_course of a code without a course and enroll_student of an id
\* without a profile flash a message that is no success notice and leave every
\* dictionary and every file as it was.
C10_AbsentKeyChangesNothing ==
    [][(/\ check_faculty_auth
        /\ \/ /\ request'.route \in {"update_student", "delete_student"}
              /\ ~Has(student_profile_data, request'.arg)
           \/ /\ request'.route = "update_course"
              /\ ~Has(course_data, request'.arg)
           \/ /\ request'.route = "enroll_student"
              /\ request'.form.course_name # ""
              /\ request'.form.student_id_to_add # ""
              /\ ~Has(student_profile_data, request'.form.student_id_to_add))
       => /\ UNCHANGED <<store, files>>
          /\ flashed'.message # ""
          /\ flashed'.category # "success"]_vars

\* the request of this step is one its handler's validation turns down
RejectedByValidation ==
    \/ /\ request'.route = "create_student"
       /\ \/ \E f \in {"studentId", "password", "confirmPassword", "firstName",
                       "lastName", "email"} : Strip(request'.form[f]) = ""
          \/ request'.form.password # request'.form.confirmPassword
          \/ Has(student_profile_data, Strip(request'.form.studentId))
    \/ /\ request'.route = "update_student"
       /\ Has(student_profile_data, request'.arg)
       /\ \/ \E f \in {"firstName", "lastName", "email"} : Strip(request'.form[f]) = ""
          \/ \E f \in {"enrollmentDate", "dob"} : request'.form[f] = ""
          \/ /\ request'.form.password # ""
             /\ request'.form.password # request'.form.confirmPassword
    \/ /\ request'.route = "update_course"
       /\ Has(course_data, request'.arg)
       /\ \/ \E f \in {"courseName", "instructor", "semester", "credits", "facultyId"} :
                 Strip(request'.form[f]) = ""
          \/ Strip(request'.form.credits) \notin DOMAIN IntOf
          \/ ~Has(faculty_users, Strip(request'.form.facultyId))

\* C11: a create_student, update_student or update_course that validation
\* turns down changes no dictionary and no file, and tells a faculty user so
\* with an error message; a create_student for an id that has a profile leaves
\* that profile and its login entry as they were.
C11_RejectedChangesNothing ==
    [][RejectedByValidation =>
          /\ UNCHANGED <<store, files>>
          /\ check_faculty_auth => flashed'.category = "error"]_vars

\* a create_student for the id of a student whose first name had been changed
\* was turned down as a duplicate, and the changed profile is still there
C11_Witness ==
    /\ request.route = "create_student"
    /\ flashed.message = "ID '{sid}' already exists."
    /\ request.form.firstName = "Ann"
    /\ At(student_profile_data, "s1")["firstName"] = S("Eve")
    /\ At(StudentsOnDisk, "s1")["firstName"] = S("Eve")

\* this step is an upload handler calling load_data_from_csv on the saved file
UploadLoads ==
    /\ request'.route \in {"upload_student_data", "upload_grades_data",
                           "upload_attendance_data"}
    /\ check_faculty_auth
    /\ EndsWithCsv(request'.arg)
    /\ flashed'.message \notin {"Error processing student data file: {e}",
                                "Error processing {what} data file: {e}"}

\* the dictionary an upload handler hands to load_data_from_csv is unchanged
UploadTargetUnchanged ==
    /\ request'.route = "upload_student_data" => UNCHANGED student_profile_data
    /\ request'.route = "upload_grades_data" => UNCHANGED student_grades_data
    /\ request'.route = "upload_attendance_data" => UNCHANGED student_attendance_data

\* C12: load_data_from_csv leaves its dictionary as it was for a path that
\* does not exist, for an empty file and for a header without the key field,
\* and raises nothing: the upload handler that called it goes on to its
\* success notice.
C12_DegenerateFileLeavesMapping ==
    /\ [](\A f \in {NoFile, EmptyFile, StudentsNoKey, GradesNoKey, AttendanceNoKey} :
            /\ load_data_from_csv(f, student_profile_data, "studentId", FALSE)
                   = student_profile_data
            /\ load_data_from_csv(f, student_grades_data, "studentId", TRUE)
                   = student_grades_data
            /\ load_data_from_csv(f, student_attendance_data, "studentId", TRUE)
                   = student_attendance_data
            /\ load_data_from_csv(f, course_data, "courseCode", FALSE) = course_data)
    /\ [][(/\ UploadLoads
           /\ request'.form.damage = Intact
           /\ \/ request'.form.content.hdr = <<>>
              \/ "studentId" \notin Range(request'.form.content.hdr))
          => /\ UploadTargetUnchanged
             /\ flashed'.category = "success"]_vars

\* a file without the studentId column was uploaded over the profiles loaded
\* at startup, which are still there
C12_Witness ==
    /\ request.route = "upload_student_data"
    /\ request.form.content = StudentsNoKey
    /\ flashed.category = "success"
    /\ Keys(student_profile_data) = {"s1"}
    /\ At(student_profile_data, "s1")["firstName"] = S("Ann")

\* C13: when reading the file raises inside load_data_from_csv, in open(), in
\* the header or in any later row, the dictionary is afterwards what it was
\* before the call.
C13_UnreadableFileLeavesMapping ==
    [][(UploadLoads /\ request'.form.damage # Intact) => UploadTargetUnchanged]_vars

\* the students some dictionary knows
KnownStudents ==
    Keys(student_profile_data) \cup Keys(student_grades_data)
        \cup Keys(student_attendance_data)

\* the sum of the scores that are numbers over the number of such scores, in
\* hundredths
ExpectedAverage(student_id) ==
    LET numeric == SelectSeq(GradesOf(student_id),
                       LAMBDA g : /\ "score" \in DOMAIN g
                                  /\ g["score"].t = "str"
                                  /\ g["score"].v \in DOMAIN FloatOf)
        total == Sum([i \in 1..Len(numeric) |-> FloatOf[numeric[i]["score"].v]], 1)
    IN  IF Len(numeric) = 0 THEN 0 ELSE RoundDiv(total * 100, Len(numeric))

\* C14: student_dashboard, grades, view_student and manage_students all report
\* for a student the sum of the numeric scores divided by the number of
\* records with a numeric score.
C14_AverageOverNumericScores ==
    /\ \A id \in KnownStudents :
           /\ student_dashboard(id).overall_grade = ExpectedAverage(id)
           /\ grades(id).overall_grade = ExpectedAverage(id)
           /\ Has(student_profile_data, id) =>
                  view_student(id).overall_grade = ExpectedAverage(id)
    /\ \A i \in 1..Len(manage_students) :
           manage_students[i].grade = ExpectedAverage(manage_students[i].id)

\* round(100 * (records Present or Late) / (all records))
ExpectedPercentage(student_id) ==
    LET log == AttendanceOf(student_id)
        attended == {i \in 1..Len(log) :
                        "status" \in DOMAIN log[i]
                        /\ log[i]["status"] \in {S("Present"), S("Late")}}
    IN  IF Len(log) = 0 THEN 0 ELSE RoundDiv(100 * Cardinality(attended), Len(log))

\* C15: attendance, manage_students and view_student all report for a
\* student the rounded share of the records whose status is Present or Late.
C15_PercentageCountsLate ==
    /\ \A id \in KnownStudents :
           /\ attendance(id).overall_perc = ExpectedPercentage(id)
           /\ Has(student_profile_data, id) =>
                  view_student(id).overall_attendance = ExpectedPercentage(id)
    /\ \A i \in 1..Len(manage_students) :
           manage_students[i].attendance = ExpectedPercentage(manage_students[i].id)

\* C16: manage_students lists a student who has neither grade records nor
\* attendance records with grade 0.0 and attendance 0.
C16_NoRecordsListedAsZero ==
    \A i \in 1..Len(manage_students) :
        (GradesOf(manage_students[i].id) = <<>>
             /\ AttendanceOf(manage_students[i].id) = <<>>)
        => (manage_students[i].grade = 0 /\ manage_students[i].attendance = 0)

\* a student has just been created and is listed with 0.0 and 0, next to
\* nobody or to students who have records
C16_Witness ==
    /\ request.route = "create_student"
    /\ flashed.category = "success"
    /\ \E i \in 1..Len(manage_students) :
           /\ manage_students[i].id = Strip(request.form.studentId)
           /\ GradesOf(manage_students[i].id) = <<>>
           /\ AttendanceOf(manage_students[i].id) = <<>>
           /\ manage_students[i].grade = 0
           /\ manage_students[i].attendance = 0

\* the names of course_data and the names the records mention
AllCourseNames ==
    {Get(course_data[i][2], "courseName") :
        i \in {j \in 1..Len(course_data) : Truthy(Get(course_data[j][2], "courseName"))}}
    \cup inferred_course_names

\* how many entries of the manage_courses listing carry a name
TimesListed(name) ==
    Cardinality({i \in 1..Len(manage_courses.listed) : manage_courses.listed[i].name = name})
    + Cardinality({e \in manage_courses.inferred : e.name = name})

\* C17: manage_courses lists every course name of course_data and of the
\* grade and attendance records exactly once, and take_attendance and reports
\* offer the same set of names.
C17_OneCourseListing ==
    /\ \A name \in AllCourseNames : TimesListed(name) = 1
    /\ take_attendance = AllCourseNames
    /\ reports = AllCourseNames

\* the entries of course_data that are assigned to somebody else than the
\* faculty user of the session
CoursesOfOthers ==
    {i \in 1..Len(course_data) :
        /\ Truthy(Get(course_data[i][2], "facultyId"))
        /\ Get(course_data[i][2], "facultyId") # Get(session, "user_id")}

\* C18: a faculty user's update_course of a course assigned to another
\* faculty id, and a faculty user's enroll_student into such a course, change
\* neither course_data nor student_attendance_data nor any file.
C18_OnlyAssignedFacultyModifies ==
    [][(/\ check_faculty_auth
        /\ \/ /\ request'.route = "update_course"
              /\ \E i \in CoursesOfOthers : course_data[i][1] = request'.arg
           \/ /\ request'.route = "enroll_student"
              /\ \E i \in CoursesOfOthers :
                     Get(course_data[i][2], "courseName") = S(request'.form.course_name))
       => UNCHANGED <<course_data, student_attendance_data, files>>]_vars

StateChangingRoutes ==
    {"create_student", "update_student", "delete_student", "update_course",
     "submit_attendance", "enroll_student", "upload_student_data",
     "upload_grades_data", "upload_attendance_data"}

\* C19: a request to a state-changing handler from a session whose role is
\* not faculty changes no dictionary and no file.
C19_OnlyFacultyChangesState ==
    [][(request'.route \in StateChangingRoutes /\ Get(session, "role") # S("faculty"))
       => UNCHANGED <<store, files>>]_vars

\* a logged-in student has asked for the deletion of a student, who is still
\* there
C19_Witness ==
    /\ Get(session, "role") = S("student")
    /\ request.route = "delete_student"
    /\ Has(student_profile_data, request.arg)
    /\ Has(student_login_data, request.arg)

\* C20: a login gives the session the role student and the user_id S only
\* when the password presented is the one student_login_data holds for S at
\* that moment, and the role faculty only when it is the one of faculty_users;
\* a login that matches neither leaves a session without role and user_id,
\* whatever the session was; no other request but logout touches the session.
C20_SessionFollowsLastLogin ==
    [][/\ request'.route = "login" =>
              LET username == request'.form.username
                  password == S(request'.form.password)
                  faculty == /\ Has(faculty_users, username)
                             /\ At(faculty_users, username).password = password
                  student == /\ Has(student_login_data, username)
                             /\ At(student_login_data, username).password = password
              IN  /\ Get(session', "role") = S("faculty") =>
                         (faculty /\ Get(session', "user_id") = S(username))
                  /\ Get(session', "role") = S("student") =>
                         (student /\ Get(session', "user_id") = S(username))
                  /\ Get(session', "role") \in {S("faculty"), S("student"), None}
                  /\ ~(faculty \/ student) =>
                         /\ "role" \notin DOMAIN session'
                         /\ "user_id" \notin DOMAIN session'
       /\ request'.route = "logout" => "role" \notin DOMAIN session'
       /\ request'.route \notin {"login", "logout"} => UNCHANGED session]_vars

\* a student whose password a faculty user had changed has tried the old
\* password, and the session, a faculty session before, has no role any more
C20_Witness ==
    /\ request.route = "login"
    /\ request.form = [username |-> "s1", password |-> "p"]
    /\ flashed.message = "Invalid username or password"
    /\ Has(student_login_data, "s1")
    /\ At(student_login_data, "s1").password = S("q")
    /\ session = EmptySession

\* a student is logged in with the password the login entry holds
C20_WitnessStudent ==
    /\ request.route = "login"
    /\ Get(session, "role") = S("student")
    /\ Get(session, "user_id") = S("s1")

UploadRoutes == {"upload_student_data", "upload_grades_data", "upload_attendance_data"}

\* C21: an upload handler turns down a file whose name does not end in .csv
\* with an error message, changing no dictionary and storing nothing; for a
\* name that ends in .csv the copy saved in the upload folder is gone when
\* the handler returns, whether the file was loaded, could not be read to its
\* end, or could not be saved.
C21_UploadRejectsOrCleansUp ==
    [][request'.route \in UploadRoutes =>
          /\ ~EndsWithCsv(request'.arg) =>
                 /\ UNCHANGED <<store, files, upload_folder>>
                 /\ check_faculty_auth =>
                        (flashed'.category = "error" /\ flashed'.message # "")
          /\ (check_faculty_auth /\ EndsWithCsv(request'.arg)) =>
                 /\ secure_filename(request'.arg) \notin upload_folder'
                 /\ flashed'.category \in {"success", "error"}]_vars

\* a grades file that could not be read past its first row was uploaded: part
\* of it is loaded, and no copy of it is left in the upload folder
C21_Witness ==
    /\ request.route = "upload_grades_data"
    /\ request.arg = "grades.csv"
    /\ request.form.damage = [at |-> "row", rows |-> 1]
    /\ Keys(student_grades_data) = {"s1"}
    /\ Len(At(student_grades_data, "s1")) = 1
    /\ "grades.csv" \notin upload_folder

CourseNamesAsked == {"Math", "Physics", "Art", "C++"}

\* the ids of the students with a profile and a grade or attendance record of
\* the course
EnrolledIn(course_name) ==
    {id \in Keys(student_profile_data) :
        \/ HasRecordFor(student_grades_data, id, course_name)
        \/ HasRecordFor(student_attendance_data, id, course_name)}

\* C22: for a faculty session get_roster_api(course) lists, in the order of
\* their ids and each once, exactly the students with a profile and a grade
\* or attendance record of the course; hence a student just deleted is in no
\* roster and a student just enrolled is in the roster of the course.
C22_RosterIsEnrolledWithProfile ==
    /\ [](check_faculty_auth =>
            \A course \in CourseNamesAsked :
                LET roster == get_roster_api(course).roster
                IN  /\ {roster[i].id : i \in 1..Len(roster)} = EnrolledIn(course)
                    /\ \A i, j \in 1..Len(roster) :
                           i < j => \E m, n \in 1..Len(SortedIds) :
                                        /\ m < n
                                        /\ SortedIds[m] = roster[i].id
                                        /\ SortedIds[n] = roster[j].id)
    /\ [][/\ (request'.route = "delete_student" /\ check_faculty_auth) =>
                 \A course \in CourseNamesAsked :
                     \A i \in 1..Len(get_roster_api(course)'.roster) :
                         get_roster_api(course)'.roster[i].id # request'.arg
          /\ (request'.route = "enroll_student" /\ flashed'.category = "success") =>
                 \E course \in CourseNamesAsked :
                     /\ course = request'.form.course_name
                     /\ \E i \in 1..Len(get_roster_api(course)'.roster) :
                            get_roster_api(course)'.roster[i].id
                                = request'.form.student_id_to_add]_vars

\* C23: when two update_student requests for one student, both accepted,
\* have run to their end with their statements interleaved, the profile is
\* the record one of the two built, whole, and the login entry holds the
\* password of that record.
C23_ConcurrentUpdatesLastWriteWins ==
    \A t, u \in Threads :
        (/\ t # u
         /\ in_flight[t].pc = "done"
         /\ in_flight[u].pc = "done"
         /\ in_flight[t].student_id = in_flight[u].student_id)
        => LET student_id == in_flight[t].student_id
           IN  /\ Has(student_profile_data, student_id)
               /\ At(student_profile_data, student_id)
                      \in {in_flight[t].updated_data, in_flight[u].updated_data}
               /\ Has(student_login_data, student_id)
               /\ At(student_login_data, student_id).password
                      = At(student_profile_data, student_id)["password"]

\* every grade record of a dictionary, with the student it is stored under
GradeRecords(d) == UNION {{<<k, At(d, k)[i]>> : i \in 1..Len(At(d, k))} : k \in Keys(d)}

\* C24: no request but an upload of grades and a delete_student changes
\* student_grades_data; delete_student takes the list of its student away and
\* leaves every other list as it was; an upload of grades leaves the
\* dictionary as it was or replaces it by rows of the file.  No step changes
\* or drops one record of a list that stays.
C24_GradesOnlyReplacedOrDeleted ==
    [][/\ request'.route \notin {"upload_grades_data", "delete_student"} =>
              UNCHANGED student_grades_data
       /\ request'.route = "delete_student" =>
              /\ Keys(student_grades_data) \ Keys(student_grades_data') \subseteq {request'.arg}
              /\ \A k \in Keys(student_grades_data') :
                     /\ Has(student_grades_data, k)
                     /\ At(student_grades_data', k) = At(student_grades_data, k)
       /\ request'.route = "upload_grades_data" =>
              \/ UNCHANGED student_grades_data
              \/ \A e \in GradeRecords(student_grades_data') :
                     \E i \in 1..Len(request'.form.content.rows) :
                         e[2] = DictRow(request'.form.content.hdr,
                                        request'.form.content.rows[i])]_vars

\* a student with a grade record has been deleted, and the grade record of
\* another student is still the one loaded at startup
C24_Witness ==
    /\ request.route = "delete_student"
    /\ request.arg = "s2"
    /\ check_faculty_auth
    /\ ~Has(student_grades_data, "s2")
    /\ Has(student_grades_data, "s9")
    /\ At(student_grades_data, "s9") = At(load_data_from_csv(GradesOne, EmptyDict, "studentId", TRUE), "s9")

\* the rows of a file as csv.DictReader yields them, those without a value
\* in the key column left out
KeyedRows(f, key_field) ==
    SelectSeq([i \in 1..Len(f.rows) |-> DictRow(f.hdr, f.rows[i])],
              LAMBDA row : row[key_field] # None)

\* the dictionary is the file: its keys are the key values of the rows, and
\* under a key are the last row of the key, or all its rows in file order
HoldsExactly(data_dict, f, key_field, is_list) ==
    LET rows == KeyedRows(f, key_field)
        OfKey(k) == SelectSeq(rows, LAMBDA row : row[key_field].v = k)
    IN  /\ Keys(data_dict) = {rows[i][key_field].v : i \in 1..Len(rows)}
        /\ \A i, j \in 1..Len(data_dict) : data_dict[i][1] = data_dict[j][1] => i = j
        /\ \A k \in Keys(data_dict) :
               At(data_dict, k) = IF is_list THEN OfKey(k) ELSE OfKey(k)[Len(OfKey(k))]

\* C25: after load_data_from_csv has read a file with a header that holds the
\* key column, the dictionary holds the file and nothing of what it held
\* before: its keys are the key values of the rows; for profiles the last row
\* of a key is stored, for grades and attendance every row of a key, in the
\* order of the file.
C25_LoadReplacesMapping ==
    [][(/\ UploadLoads
        /\ request'.form.damage = Intact
        /\ "studentId" \in Range(request'.form.content.hdr))
       => /\ request'.route = "upload_student_data" =>
                 HoldsExactly(student_profile_data', request'.form.content, "studentId", FALSE)
          /\ request'.route = "upload_grades_data" =>
                 HoldsExactly(student_grades_data', request'.form.content, "studentId", TRUE)
          /\ request'.route = "upload_attendance_data" =>
                 HoldsExactly(student_attendance_data', request'.form.content,
                              "studentId", TRUE)]_vars

\* a students file with two rows for s1 and a row without id was loaded after
\* another upload: s1 is the only key, with the fields of its second row
C25_Witness ==
    /\ request.route = "upload_student_data"
    /\ request.form.content = StudentsRepeated
    /\ request.form.damage = Intact
    /\ flashed.category = "success"
    /\ Keys(student_profile_data) = {"s1"}
    /\ At(student_profile_data, "s1")["firstName"] = S("Eve")
    /\ requests >= 3

\* an attendance file was loaded over the record read at startup: the three
\* rows of s1 are under s1 in the order of the file
C25_WitnessList ==
    /\ request.route = "upload_attendance_data"
    /\ request.form.content = AttendanceTwo
    /\ request.form.damage = Intact
    /\ Len(At(student_attendance_data, "s1")) = 3
    /\ At(student_attendance_data, "s1")[2]["status"] = S("Late")

\* C26: every record of student_profile_data has a studentId field equal to
\* the key it is stored under, also after a create_student whose id was typed
\* with spaces around it.
C26_ProfileIdIsItsKey ==
    \A k \in Keys(student_profile_data) :
        Get(At(student_profile_data, k), "studentId") = S(k)

\* C27: every key of student_login_data is a key of student_profile_data,
\* from the startup load on and after every create, update, delete and upload.
C27_NoLoginWithoutProfile ==
    Keys(student_login_data) \subseteq Keys(student_profile_data)

\* the only student of students.csv was deleted and has then tried to log in
\* with the password the file had: there is no login entry to match it
C27_Witness ==
    /\ request.route = "login"
    /\ request.form = [username |-> "s1", password |-> "p"]
    /\ flashed.message = "Invalid username or password"
    /\ ~Has(student_login_data, "s1")
    /\ ~Has(student_profile_data, "s1")
    /\ students_csv = CsvFile(STUDENT_HEADERS, <<>>)
    /\ requests = 3

\* what load_data_from_csv makes of attendance.csv in list mode
AttendanceOnDisk == load_data_from_csv(attendance_csv, EmptyDict, "studentId", TRUE)

\* C28: when the server started without attendance.csv and without
\* attendance records, then after any number of submit_attendance and
\* enroll_student requests whose append succeeded, loading attendance.csv
\* gives student_attendance_data: the same students, and for each the same
\* records in the same order.
C28_AttendanceFileMirrorsMemory ==
    DictEq(AttendanceOnDisk, student_attendance_data)

\* C29: when the server is restarted after a delete_student(S) that reported
\* success, the dictionaries loaded from students.csv, grades.csv and
\* attendance.csv hold no profile, no login entry, no grade record and no
\* attendance record of S.
C29_DeletionSurvivesRestart ==
    [][(/\ request.route = "delete_student"
        /\ flashed.category = "success"
        /\ request'.route = "restart")
       => /\ ~Has(student_profile_data', request.arg)
          /\ ~Has(student_login_data', request.arg)
          /\ ~Has(student_grades_data', request.arg)
          /\ ~Has(student_attendance_data', request.arg)]_vars

\* the enroll_student of this step comes from a faculty user authorized for
\* the course, names a student who has a profile, and the student has no
\* grade or attendance record of the course
EnrollEligible ==
    /\ request'.route = "enroll_student"
    /\ check_faculty_auth
    /\ request'.form.course_name # ""
    /\ is_faculty_authorized_for_course(Get(session, "user_id"),
                                        S(request'.form.course_name))
    /\ Has(student_profile_data, request'.form.student_id_to_add)
    /\ \A i \in 1..Len(GradesOf(request'.form.student_id_to_add)) :
           Get(GradesOf(request'.form.student_id_to_add)[i], "courseName")
               # S(request'.form.course_name)
    /\ \A i \in 1..Len(AttendanceOf(request'.form.student_id_to_add)) :
           Get(AttendanceOf(request'.form.student_id_to_add)[i], "courseName")
               # S(request'.form.course_name)

\* this step adds one record to student_attendance_data, at the end of the
\* list of the student: Present, today, for the course; and one row to
\* attendance.csv
EnrollAddsPlaceholder ==
    LET student_id == request'.form.student_id_to_add
        before == AttendanceOf(student_id)
        after == At(student_attendance_data', student_id)
    IN  /\ Has(student_attendance_data', student_id)
        /\ Len(after) = Len(before) + 1
        /\ SubSeq(after, 1, Len(before)) = before
        /\ after[Len(after)]["studentId"] = S(student_id)
        /\ after[Len(after)]["courseName"] = S(request'.form.course_name)
        /\ after[Len(after)]["date"] = S(Today)
        /\ after[Len(after)]["status"] = S("Present")
        /\ \A k \in Keys(student_attendance_data') \ {student_id} :
               /\ Has(student_attendance_data, k)
               /\ At(student_attendance_data', k) = At(student_attendance_data, k)
        /\ Keys(student_attendance_data') = Keys(student_attendance_data) \cup {student_id}
        /\ Len(attendance_csv'.rows) = Len(attendance_csv.rows) + 1
        /\ attendance_csv'.rows[Len(attendance_csv'.rows)]
               = <<student_id, request'.form.course_name, Today, "Present",
                   CsvText(GetOr(session, "name", S("?")))>>

\* an enroll_student right after an enroll_student of the same student and
\* course that was not turned down
EnrollRepeated ==
    /\ request'.route = "enroll_student"
    /\ request.route = "enroll_student"
    /\ request'.form = request.form
    /\ flashed.category \in {"success", "warning"}

====
